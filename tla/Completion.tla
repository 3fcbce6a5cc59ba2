---------------------------- MODULE Completion ----------------------------
(***************************************************************************)
(* Completions (sched/core.c): a counter of posted events and a queue of   *)
(* exclusive waiters.  Everything the functions do under x->wait.lock is   *)
(* one action; a waiter gives up the lock only to sleep in                 *)
(* schedule_timeout, and looks again when something woke it: a complete,   *)
(* its timer or a signal, in any order and any combination.                *)
(***************************************************************************)
EXTENDS Lists, FiniteSets

CONSTANTS
  Procs,                  \* the tasks that wait
  UINT_MAX,               \* x->done is an unsigned int
  MAX_SCHEDULE_TIMEOUT,   \* wait for ever
  Calls,                  \* how callers wait: [state, timeout]
  Signals                 \* the signals they may get: "signal", "kill"

ERESTARTSYS == 512

(* The six wait_for_completion functions are wait_for_common with a sleep  *)
(* state and a timeout.                                                    *)
SleepStates == {"UNINTERRUPTIBLE", "INTERRUPTIBLE", "KILLABLE"}

WaitType == [state : SleepStates, timeout : 0 .. MAX_SCHEDULE_TIMEOUT]

ASSUME CompletionAssumption ==
  /\ IsFiniteSet(Procs)
  /\ UINT_MAX \in Nat \ {0, 1}
  /\ MAX_SCHEDULE_TIMEOUT \in Nat \ {0}
  /\ Calls \subseteq WaitType
  /\ Signals \subseteq {"signal", "kill"}

VARIABLES
  done,      \* x->done
  queue,     \* x->wait.task_list, every entry exclusive
  state,     \* p->state
  pending,   \* the worst signal pending for p, if any
  wait,      \* [state, timeout] p waits with; the timeout is what is left
  owed       \* events posted and not yet reported to a caller, as a
             \* caller counts them: not in the code

vars == <<done, queue, state, pending, wait, owed>>

NotWaiting == [state |-> "UNINTERRUPTIBLE", timeout |-> 0]

Init ==
  /\ done = 0
  /\ queue = <<>>
  /\ state = [p \in Procs |-> "RUNNING"]
  /\ pending = [p \in Procs |-> "none"]
  /\ wait = [p \in Procs |-> NotWaiting]
  /\ owed = 0

-----------------------------------------------------------------------------
Waiters == {queue[i] : i \in DOMAIN queue}

Asleep == {p \in Waiters : state[p] # "RUNNING"}

Awake == {p \in Waiters : state[p] = "RUNNING"}

(* signal_pending_state                                                    *)
signal_pending_state(s, p) ==
  \/ s = "INTERRUPTIBLE" /\ pending[p] # "none"
  \/ s = "KILLABLE" /\ pending[p] = "kill"

(* __wake_up_common: whom it wakes.  try_to_wake_up fails for a waiter     *)
(* that something else woke already, and the scan goes on to the next.     *)
first_asleep ==
  {queue[i] : i \in {j \in DOMAIN queue :
                       /\ state[queue[j]] # "RUNNING"
                       /\ \A k \in 1 .. j - 1 : state[queue[k]] = "RUNNING"}}

(* Mutant: only the waiter at the head is tried.                           *)
wake_up_head(nr_exclusive) ==
  IF queue = <<>> THEN {} ELSE {queue[1]}

(* Mutant: the queue is scanned from its end.                              *)
wake_up_reverse(nr_exclusive) ==
  IF nr_exclusive = 0 THEN Asleep
  ELSE {queue[i] : i \in {j \in DOMAIN queue :
                           /\ state[queue[j]] # "RUNNING"
                           /\ \A k \in j + 1 .. Len(queue) :
                                state[queue[k]] = "RUNNING"}}

wake_up_common(nr_exclusive) ==
  IF nr_exclusive = 0 THEN Asleep ELSE first_asleep

Wake(S) == state' = [p \in Procs |-> IF p \in S THEN "RUNNING" ELSE state[p]]

(* Mutant: a call that took an event at the end of its timeout returns 0.  *)
at_least_one_not(timeout) == timeout

(* timeout ?: 1                                                            *)
at_least_one(timeout) == IF timeout = 0 THEN 1 ELSE timeout

(* A call returns r: a positive value reports an event to the caller.      *)
Return(p, r) ==
  /\ owed' = IF r > 0 THEN owed - 1 ELSE owed
  /\ wait' = [wait EXCEPT ![p] = NotWaiting]

TakeDone(p, timeout) ==
  /\ done' = done - 1
  /\ Return(p, at_least_one(timeout))

Post(n) ==
  /\ done' = (done + n) % (UINT_MAX + 1)
  /\ owed' = (owed + n) % (UINT_MAX + 1)

-----------------------------------------------------------------------------
complete ==
  /\ Post(1)
  /\ Wake(wake_up_common(1))
  /\ UNCHANGED <<queue, pending, wait>>

complete_all ==
  /\ Post(UINT_MAX \div 2)
  /\ Wake(wake_up_common(0))
  /\ UNCHANGED <<queue, pending, wait>>

(* do_wait_for_common: an event is there already ...                       *)
WaitTakes(p, c) ==
  /\ p \notin Waiters
  /\ done # 0
  /\ TakeDone(p, c.timeout)
  /\ UNCHANGED <<queue, state, pending>>

(* ... or a signal is, and the entry is added and removed again ...        *)
WaitInterrupted(p, c) ==
  /\ p \notin Waiters
  /\ done = 0
  /\ signal_pending_state(c.state, p)
  /\ Return(p, -ERESTARTSYS)
  /\ UNCHANGED <<done, queue, state, pending>>

(* ... or the task queues itself and sleeps.                               *)
WaitSleeps(p, c) ==
  /\ p \notin Waiters
  /\ done = 0
  /\ ~signal_pending_state(c.state, p)
  /\ queue' = list_add_tail(queue, p)
  /\ state' = [state EXCEPT ![p] = c.state]
  /\ wait' = [wait EXCEPT ![p] = c]
  /\ UNCHANGED <<done, pending, owed>>

(* The waiter is awake and has the lock again: an event for it ...         *)
LoopTakes(p) ==
  /\ p \in Awake
  /\ done # 0
  /\ queue' = list_del(queue, p)
  /\ TakeDone(p, wait[p].timeout)
  /\ UNCHANGED <<state, pending>>

(* ... the time is up ...                                                  *)
LoopTimedOut(p) ==
  /\ p \in Awake
  /\ done = 0
  /\ wait[p].timeout = 0
  /\ queue' = list_del(queue, p)
  /\ Return(p, 0)
  /\ UNCHANGED <<done, state, pending>>

(* ... a signal ...                                                        *)
LoopInterrupted(p) ==
  /\ p \in Awake
  /\ done = 0
  /\ wait[p].timeout # 0
  /\ signal_pending_state(wait[p].state, p)
  /\ queue' = list_del(queue, p)
  /\ Return(p, -ERESTARTSYS)
  /\ UNCHANGED <<done, state, pending>>

(* Mutant: the waiter does not look whether an event came meanwhile.       *)
must_sleep_blind(p) == wait[p].timeout # 0

must_sleep(p) == done = 0 /\ wait[p].timeout # 0

(* ... or nothing: somebody else took the event, and it sleeps again.      *)
LoopSleeps(p) ==
  /\ p \in Awake
  /\ must_sleep(p)
  /\ ~signal_pending_state(wait[p].state, p)
  /\ state' = [state EXCEPT ![p] = wait[p].state]
  /\ UNCHANGED <<done, queue, pending, wait, owed>>

try_wait_for_completion(p) ==
  /\ p \notin Waiters
  /\ IF done = 0 THEN /\ Return(p, 0)
                      /\ UNCHANGED done
                 ELSE /\ Return(p, 1)
                      /\ done' = done - 1
  /\ UNCHANGED <<queue, state, pending>>

-----------------------------------------------------------------------------
(* schedule_timeout: the timer of a waiter fires, or time passes while it  *)
(* is on its way to the lock; some of its time may have passed before.     *)
TimerFires(p) ==
  /\ p \in Waiters
  /\ wait[p].timeout # MAX_SCHEDULE_TIMEOUT
  /\ p \in Asleep \/ wait[p].timeout # 0
  /\ wait' = [wait EXCEPT ![p].timeout = 0]
  /\ Wake({p})
  /\ UNCHANGED <<done, queue, pending, owed>>

(* signal_wake_up: a signal wakes interruptible sleepers, a fatal one      *)
(* killable ones too.                                                      *)
SendSignal(p, s) ==
  /\ pending[p] \notin {s, "kill"}
  /\ pending' = [pending EXCEPT ![p] = s]
  /\ Wake(IF \/ state[p] = "INTERRUPTIBLE"
             \/ state[p] = "KILLABLE" /\ s = "kill" THEN {p} ELSE {})
  /\ UNCHANGED <<done, queue, wait, owed>>

(* On its way back to user space a task handles its signals.               *)
HandleSignals(p) ==
  /\ p \notin Waiters
  /\ pending[p] # "none"
  /\ pending' = [pending EXCEPT ![p] = "none"]
  /\ UNCHANGED <<done, queue, state, wait, owed>>

Loop(p) ==
  LoopTakes(p) \/ LoopTimedOut(p) \/ LoopInterrupted(p) \/ LoopSleeps(p)

Next ==
  \/ complete
  \/ complete_all
  \/ \E p \in Procs :
       \/ \E c \in Calls :
            WaitTakes(p, c) \/ WaitInterrupted(p, c) \/ WaitSleeps(p, c)
       \/ LoopTakes(p)
       \/ LoopTimedOut(p)
       \/ LoopInterrupted(p)
       \/ LoopSleeps(p)
       \/ try_wait_for_completion(p)
       \/ TimerFires(p)
       \/ \E s \in Signals : SendSignal(p, s)
       \/ HandleSignals(p)

Spec == Init /\ [][Next]_vars

(* A woken task runs again and gets the lock.                              *)
FairSpec == Spec /\ \A p \in Procs : WF_vars(Loop(p))

-----------------------------------------------------------------------------
TypeOK ==
  /\ done \in 0 .. UINT_MAX
  /\ queue \in Seq(Procs)
  /\ state \in [Procs -> SleepStates \cup {"RUNNING"}]
  /\ pending \in [Procs -> {"none", "signal", "kill"}]
  /\ wait \in [Procs -> WaitType]
  /\ owed \in Int

(* No lost wakeup: while a waiter sleeps, every posted event has a waiter  *)
(* of its own that is awake and on its way to take it.  Timers and signals *)
(* that wake a waiter first, and callers that take an event in passing,    *)
(* leave no event to nobody.                                               *)
NoLostWakeup == Asleep # {} => done <= Cardinality(Awake)

(* Every posted event is reported to exactly one caller or still there: a  *)
(* wait that times out or is interrupted while an event arrives either     *)
(* takes it and says so, or leaves it.  Both counts wrap after UINT_MAX.    *)
EventsConserved == done = owed

(* "Threads will be awakened in the same order in which they were queued": *)
(* an event wakes no waiter while one in front of it sleeps on.            *)
WokenInOrder ==
  [][\A i, j \in DOMAIN queue :
       /\ i < j
       /\ done' # done
       /\ state[queue[i]] # "RUNNING"
       /\ state[queue[j]] # "RUNNING"
       /\ state'[queue[j]] = "RUNNING"
       => state'[queue[i]] = "RUNNING"]_vars

(* An event that was posted does not wait for ever while there are         *)
(* waiters, however timers and signals interfere.                          *)
EventTaken == (done # 0 /\ queue # <<>>) ~> (done = 0 \/ queue = <<>>)

(* The inductive invariant: a task is queued at most once, and only queued *)
(* tasks sleep.                                                            *)
QueuedOnce == QueueHolds(queue, Waiters)

OnlyQueuedSleep == \A p \in Procs : state[p] # "RUNNING" => p \in Waiters

CompletionInv ==
  /\ TypeOK
  /\ QueuedOnce
  /\ OnlyQueuedSleep
  /\ NoLostWakeup
=============================================================================
