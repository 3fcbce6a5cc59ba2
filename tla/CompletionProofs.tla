-------------------------- MODULE CompletionProofs --------------------------
(***************************************************************************)
(* Completions lose no wakeup and no event, for any number of waiters, any *)
(* timeouts and any range of the counter.                                  *)
(***************************************************************************)
EXTENDS Completion, DataProofs

(* Unsigned addition never yields more than the sum.                       *)
LEMMA ModBound ==
  ASSUME NEW x \in Nat, NEW n \in Nat \ {0}
  PROVE  x % n \in 0 .. n - 1 /\ x % n <= x
OBVIOUS

(* The waiters are tasks, and each is awake or asleep.                     *)
LEMMA WaitersType ==
  ASSUME TypeOK
  PROVE  /\ Waiters \in SUBSET Procs
         /\ IsFiniteSet(Waiters)
         /\ IsFiniteSet(Awake)
         /\ Cardinality(Awake) \in Nat
         /\ Awake \in SUBSET Waiters
         /\ Asleep \in SUBSET Waiters
<1>1. Waiters \in SUBSET Procs
  BY DEF TypeOK, Waiters
<1>2. Awake \in SUBSET Waiters /\ Asleep \in SUBSET Waiters
  BY DEF Awake, Asleep
<1>3. IsFiniteSet(Waiters) /\ IsFiniteSet(Awake)
  BY <1>1, <1>2, CompletionAssumption, FS_Subset
<1> QED BY <1>1, <1>2, <1>3, FS_CardinalityType

(* complete wakes one waiter, if any sleeps.                               *)
LEMMA FirstAsleep ==
  ASSUME TypeOK, QueuedOnce, Asleep # {}
  PROVE  \E p \in Asleep : wake_up_common(1) = {p}
<1> DEFINE S == {j \in DOMAIN queue : state[queue[j]] # "RUNNING"}
<1>1. S \in SUBSET Nat /\ DOMAIN queue = 1 .. Len(queue) /\ Len(queue) \in Nat
  BY DEF TypeOK
<1>2. S # {}
  BY DEF Asleep, Waiters
<1>3. PICK m \in S : \A n \in S : m <= n
  BY <1>1, <1>2, LeastNatural
<1>4. queue[m] \in Asleep
  BY <1>3 DEF Asleep, Waiters
<1>5. first_asleep = {queue[m]}
  <2>1. \A k \in 1 .. m - 1 : state[queue[k]] = "RUNNING"
    BY <1>1, <1>3
  <2>2. ASSUME NEW j \in DOMAIN queue, state[queue[j]] # "RUNNING",
               \A k \in 1 .. j - 1 : state[queue[k]] = "RUNNING"
        PROVE  j = m
    BY <2>2, <1>1, <1>3
  <2> QED BY <2>1, <2>2, <1>3 DEF first_asleep
<1> QED BY <1>4, <1>5 DEF wake_up_common

(* Nobody is woken when nobody sleeps.                                     *)
LEMMA NoneAsleep ==
  ASSUME Asleep = {}
  PROVE  wake_up_common(0) = {} /\ wake_up_common(1) = {}
BY DEF wake_up_common, first_asleep, Asleep, Waiters

(* Waking tasks moves them from the sleeping to the awake waiters.         *)
LEMMA WakeStep ==
  ASSUME TypeOK, OnlyQueuedSleep, NEW S \in SUBSET Procs, Wake(S), queue' = queue
  PROVE  /\ state' \in [Procs -> SleepStates \cup {"RUNNING"}]
         /\ Waiters' = Waiters
         /\ Asleep' = Asleep \ S
         /\ Awake' = Awake \cup (Asleep \cap S)
         /\ OnlyQueuedSleep'
<1>1. state' \in [Procs -> SleepStates \cup {"RUNNING"}]
  BY DEF TypeOK, Wake
<1>2. Waiters' = Waiters
  BY DEF Waiters
<1>3. \A p \in Procs : state'[p] = IF p \in S THEN "RUNNING" ELSE state[p]
  BY DEF Wake
<1>4. Waiters \in SUBSET Procs
  BY WaitersType
<1>5. Asleep' = Asleep \ S /\ Awake' = Awake \cup (Asleep \cap S)
  BY <1>2, <1>3, <1>4 DEF Asleep, Awake
<1>6. OnlyQueuedSleep'
  BY <1>2, <1>3 DEF OnlyQueuedSleep
<1> QED BY <1>1, <1>2, <1>5, <1>6

(* An unsigned event counter: posting n events, the step of done.          *)
LEMMA PostStep ==
  ASSUME TypeOK, NEW n \in Nat, Post(n)
  PROVE  done' \in 0 .. UINT_MAX /\ owed' \in Int /\ done' <= done + n
<1>1. done + n \in Nat /\ UINT_MAX + 1 \in Nat \ {0} /\ UINT_MAX \in Nat
  BY CompletionAssumption DEF TypeOK
<1>2. (done + n) % (UINT_MAX + 1) \in 0 .. (UINT_MAX + 1) - 1
  BY <1>1, ModBound
<1>3. (done + n) % (UINT_MAX + 1) <= done + n
  BY <1>1, ModBound
<1>4. owed + n \in Int
  BY DEF TypeOK
<1>5. (owed + n) % (UINT_MAX + 1) \in Int
  BY <1>1, <1>4
<1> QED BY <1>1, <1>2, <1>3, <1>5 DEF Post

(* Returning from a wait keeps the types of what it writes.                *)
LEMMA ReturnStep ==
  ASSUME TypeOK, NEW p \in Procs, NEW r \in Int, Return(p, r)
  PROVE  wait' \in [Procs -> WaitType] /\ owed' \in Int
<1>1. NotWaiting \in WaitType
  BY CompletionAssumption DEF NotWaiting, WaitType, SleepStates
<1> QED BY <1>1 DEF TypeOK, Return

(* Taking an event lowers the counter by one, and needs one to take.       *)
LEMMA TakeStep ==
  ASSUME TypeOK, NEW p \in Procs, NEW t \in 0 .. MAX_SCHEDULE_TIMEOUT,
         done # 0, TakeDone(p, t)
  PROVE  /\ done' = done - 1 /\ done' \in 0 .. UINT_MAX
         /\ wait' \in [Procs -> WaitType] /\ owed' = owed - 1 /\ owed' \in Int
<1>1. at_least_one(t) \in Int /\ at_least_one(t) > 0
  BY CompletionAssumption DEF at_least_one
<1>2. Return(p, at_least_one(t)) /\ done' = done - 1
  BY DEF TakeDone
<1>3. wait' \in [Procs -> WaitType] /\ owed' \in Int
  BY <1>1, <1>2, ReturnStep
<1>4. owed' = owed - 1
  BY <1>1, <1>2 DEF Return
<1>5. done' \in 0 .. UINT_MAX
  BY <1>2, CompletionAssumption DEF TypeOK
<1> QED BY <1>2, <1>3, <1>4, <1>5

(* A waiter that leaves the queue was awake, and takes its place along.    *)
LEMMA LeaveStep ==
  ASSUME CompletionInv, NEW p \in Awake, queue' = list_del(queue, p),
         state' = state
  PROVE  /\ queue' \in Seq(Procs)
         /\ QueuedOnce'
         /\ OnlyQueuedSleep'
         /\ Asleep' = Asleep
         /\ Cardinality(Awake') = Cardinality(Awake) - 1
         /\ Cardinality(Awake') \in Nat
<1>1. TypeOK /\ QueuedOnce /\ OnlyQueuedSleep
  BY DEF CompletionInv
<1>2. /\ Waiters \in SUBSET Procs /\ IsFiniteSet(Awake)
      /\ Awake \in SUBSET Waiters
  BY <1>1, WaitersType
<1>3. p \in Waiters /\ state[p] = "RUNNING"
  BY DEF Awake
<1>4. queue' \in Seq(Procs) /\ QueueHolds(queue', Waiters \ {p})
  BY <1>1, <1>2, <1>3, ListDel DEF QueuedOnce, TypeOK
<1>5. Waiters' = Waiters \ {p}
  BY <1>4 DEF QueueHolds, Waiters
<1>6. QueuedOnce'
  BY <1>4, <1>5 DEF QueuedOnce, QueueHolds
<1>7. OnlyQueuedSleep'
  BY <1>1, <1>3, <1>5 DEF OnlyQueuedSleep
<1>8. Asleep' = Asleep /\ Awake' = Awake \ {p}
  BY <1>3, <1>5 DEF Asleep, Awake
<1>9. Cardinality(Awake') = Cardinality(Awake) - 1 /\ IsFiniteSet(Awake')
  BY <1>2, <1>8, FS_RemoveElement
<1>10. Cardinality(Awake') \in Nat
  BY <1>9, FS_CardinalityType
<1> QED BY <1>4, <1>6, <1>7, <1>8, <1>9, <1>10
(* The steps that wake tasks and leave the queue and the counter alone     *)
(* keep every event covered.                                               *)
LEMMA WakeKeeps ==
  ASSUME CompletionInv, NEW S \in SUBSET Procs, Wake(S), queue' = queue,
         done' = done
  PROVE  QueuedOnce' /\ OnlyQueuedSleep' /\ NoLostWakeup'
<1>1. TypeOK /\ QueuedOnce /\ OnlyQueuedSleep /\ NoLostWakeup
  BY DEF CompletionInv
<1>2. /\ Waiters' = Waiters /\ Asleep' = Asleep \ S /\ OnlyQueuedSleep'
      /\ Awake' = Awake \cup (Asleep \cap S)
  BY <1>1, WakeStep
<1>3. QueuedOnce'
  BY <1>1, <1>2 DEF QueuedOnce
<1>4. /\ IsFiniteSet(Waiters) /\ Awake \in SUBSET Waiters
      /\ Asleep \in SUBSET Waiters /\ Cardinality(Awake) \in Nat
  BY <1>1, WaitersType
<1>5. IsFiniteSet(Awake') /\ Awake \in SUBSET Awake'
  BY <1>2, <1>4, FS_Subset
<1>6. Cardinality(Awake) <= Cardinality(Awake') /\ Cardinality(Awake') \in Nat
  BY <1>5, FS_Subset, FS_CardinalityType
<1>7. NoLostWakeup'
  <2>1. CASE Asleep = {}
    BY <2>1, <1>2 DEF NoLostWakeup
  <2>2. CASE Asleep # {}
    BY <2>2, <1>1, <1>4, <1>6 DEF NoLostWakeup, TypeOK
  <2> QED BY <2>1, <2>2
<1> QED BY <1>2, <1>3, <1>7

(* complete posts one event and wakes one waiter for it.                   *)
LEMMA CompleteStep ==
  ASSUME CompletionInv, complete
  PROVE  CompletionInv'
<1>1. TypeOK /\ QueuedOnce /\ OnlyQueuedSleep /\ NoLostWakeup
  BY DEF CompletionInv
<1>2. /\ Post(1) /\ Wake(wake_up_common(1))
      /\ queue' = queue /\ pending' = pending /\ wait' = wait
  BY DEF complete
<1>3. done' \in 0 .. UINT_MAX /\ owed' \in Int /\ done' <= done + 1
  BY <1>1, <1>2, PostStep
<1>4. /\ IsFiniteSet(Awake) /\ Cardinality(Awake) \in Nat
      /\ Asleep \in SUBSET Waiters /\ Waiters \in SUBSET Procs
  BY <1>1, WaitersType
<1>5. CASE Asleep = {}
  <2>1. Wake({})
    BY <1>2, <1>5, NoneAsleep
  <2>2. /\ state' \in [Procs -> SleepStates \cup {"RUNNING"}]
        /\ Waiters' = Waiters /\ Asleep' = Asleep \ {} /\ OnlyQueuedSleep'
    BY <2>1, <1>1, <1>2, WakeStep
  <2>3. TypeOK'
    BY <2>2, <1>1, <1>2, <1>3 DEF TypeOK
  <2> QED BY <2>2, <2>3, <1>1, <1>2, <1>5
          DEF CompletionInv, QueuedOnce, NoLostWakeup
<1>6. CASE Asleep # {}
  <2>1. PICK p \in Asleep : wake_up_common(1) = {p}
    BY <1>1, <1>6, FirstAsleep
  <2>2. Wake({p}) /\ {p} \in SUBSET Procs
    BY <2>1, <1>2, <1>4
  <2>3. /\ state' \in [Procs -> SleepStates \cup {"RUNNING"}]
        /\ Waiters' = Waiters /\ OnlyQueuedSleep'
        /\ Awake' = Awake \cup (Asleep \cap {p})
    BY <2>2, <1>1, <1>2, WakeStep
  <2>4. p \notin Awake /\ Awake' = Awake \cup {p}
    BY <2>1, <2>3 DEF Awake, Asleep
  <2>5. Cardinality(Awake') = Cardinality(Awake) + 1
    BY <2>4, <1>4, FS_AddElement
  <2>6. TypeOK'
    BY <2>3, <1>1, <1>2, <1>3 DEF TypeOK
  <2>7. done <= Cardinality(Awake)
    BY <1>1, <1>6 DEF NoLostWakeup
  <2>8. NoLostWakeup'
    BY <2>5, <2>7, <1>1, <1>3, <1>4 DEF NoLostWakeup, TypeOK
  <2> QED BY <2>3, <2>6, <2>8, <1>1, <1>2 DEF CompletionInv, QueuedOnce
<1> QED BY <1>5, <1>6

(* complete_all wakes everybody.                                           *)
LEMMA CompleteAllStep ==
  ASSUME CompletionInv, complete_all
  PROVE  CompletionInv'
<1>1. TypeOK /\ QueuedOnce /\ OnlyQueuedSleep
  BY DEF CompletionInv
<1>2. /\ Post(UINT_MAX \div 2) /\ Wake(Asleep)
      /\ queue' = queue /\ pending' = pending /\ wait' = wait
  BY DEF complete_all, wake_up_common
<1>3. UINT_MAX \div 2 \in Nat
  BY CompletionAssumption
<1>4. done' \in 0 .. UINT_MAX /\ owed' \in Int
  BY <1>1, <1>2, <1>3, PostStep
<1>5. Asleep \in SUBSET Procs
  BY <1>1, WaitersType
<1>6. /\ state' \in [Procs -> SleepStates \cup {"RUNNING"}]
      /\ Waiters' = Waiters /\ Asleep' = Asleep \ Asleep /\ OnlyQueuedSleep'
  BY <1>1, <1>2, <1>5, WakeStep
<1>7. TypeOK'
  BY <1>1, <1>2, <1>4, <1>6 DEF TypeOK
<1> QED BY <1>1, <1>2, <1>6, <1>7
        DEF CompletionInv, QueuedOnce, NoLostWakeup

(* A caller that takes an event in passing leaves fewer events to the same *)
(* waiters.                                                                *)
LEMMA PassingTake ==
  ASSUME CompletionInv, done' = done \/ (done # 0 /\ done' = done - 1),
         wait' \in [Procs -> WaitType], owed' \in Int,
         queue' = queue, state' = state, pending' = pending
  PROVE  CompletionInv'
<1>1. TypeOK /\ QueuedOnce /\ OnlyQueuedSleep /\ NoLostWakeup
  BY DEF CompletionInv
<1>2. Waiters' = Waiters /\ Asleep' = Asleep /\ Awake' = Awake
  BY DEF Waiters, Asleep, Awake
<1>3. done' \in 0 .. UINT_MAX /\ done' <= done
  BY <1>1, CompletionAssumption DEF TypeOK
<1>4. TypeOK'
  BY <1>1, <1>3 DEF TypeOK
<1>5. Cardinality(Awake) \in Nat
  BY <1>1, WaitersType
<1>6. NoLostWakeup'
  BY <1>1, <1>2, <1>3, <1>5 DEF NoLostWakeup, TypeOK
<1> QED BY <1>1, <1>2, <1>4, <1>6 DEF CompletionInv, QueuedOnce, OnlyQueuedSleep

(* With no event posted, none can be without a waiter.                     *)
LEMMA ZeroCovered ==
  ASSUME queue' \in Seq(Procs), done' = 0
  PROVE  NoLostWakeup'
<1>1. Awake' \in SUBSET Procs
  BY DEF Awake, Waiters
<1>2. IsFiniteSet(Awake')
  BY <1>1, CompletionAssumption, FS_Subset
<1>3. Cardinality(Awake') \in Nat
  BY <1>2, FS_CardinalityType
<1> QED BY <1>3 DEF NoLostWakeup

(* A task that queues itself and goes to sleep has seen no event.          *)
LEMMA WaitSleepsStep ==
  ASSUME CompletionInv, NEW p \in Procs, NEW c \in Calls, WaitSleeps(p, c)
  PROVE  CompletionInv'
<1>1. TypeOK /\ QueuedOnce /\ OnlyQueuedSleep
  BY DEF CompletionInv
<1>2. /\ p \notin Waiters /\ done' = 0 /\ done = 0
      /\ queue' = list_add_tail(queue, p)
      /\ state' = [state EXCEPT ![p] = c.state]
      /\ wait' = [wait EXCEPT ![p] = c]
      /\ pending' = pending /\ owed' = owed
  BY DEF WaitSleeps
<1>3. c \in WaitType /\ c.state \in SleepStates
  BY CompletionAssumption DEF WaitType
<1>4. queue' \in Seq(Procs) /\ QueueHolds(queue', Waiters \cup {p})
  BY <1>1, <1>2, ListAdd DEF QueuedOnce, TypeOK
<1>5. Waiters' = Waiters \cup {p}
  BY <1>4 DEF QueueHolds, Waiters
<1>6. TypeOK'
  BY <1>1, <1>2, <1>3, <1>4 DEF TypeOK
<1>7. OnlyQueuedSleep'
  BY <1>1, <1>2, <1>5 DEF OnlyQueuedSleep, TypeOK
<1>8. NoLostWakeup'
  BY <1>2, <1>4, ZeroCovered
<1> QED BY <1>4, <1>5, <1>6, <1>7, <1>8 DEF CompletionInv, QueuedOnce

(* A waiter that sleeps again has looked again.                            *)
LEMMA LoopSleepsStep ==
  ASSUME CompletionInv, NEW p \in Procs, LoopSleeps(p)
  PROVE  CompletionInv'
<1>1. TypeOK /\ QueuedOnce /\ OnlyQueuedSleep
  BY DEF CompletionInv
<1>2. /\ p \in Waiters /\ done = 0 /\ done' = 0 /\ queue' = queue
      /\ state' = [state EXCEPT ![p] = wait[p].state]
      /\ wait' = wait /\ pending' = pending /\ owed' = owed
  BY DEF LoopSleeps, must_sleep, Awake
<1>3. wait[p].state \in SleepStates
  BY <1>1 DEF TypeOK, WaitType
<1>4. TypeOK'
  BY <1>1, <1>2, <1>3 DEF TypeOK
<1>5. Waiters' = Waiters
  BY <1>2 DEF Waiters
<1>6. OnlyQueuedSleep'
  BY <1>1, <1>2, <1>5 DEF OnlyQueuedSleep, TypeOK
<1>7. NoLostWakeup'
  BY <1>1, <1>2, ZeroCovered DEF TypeOK
<1> QED BY <1>1, <1>2, <1>4, <1>5, <1>6, <1>7 DEF CompletionInv, QueuedOnce

(* A waiter that leaves takes the event it was woken for, or there is none *)
(* to take.                                                                *)
LEMMA LoopLeavesStep ==
  ASSUME CompletionInv, NEW p \in Procs,
         LoopTakes(p) \/ LoopTimedOut(p) \/ LoopInterrupted(p)
  PROVE  CompletionInv'
<1>1. TypeOK /\ NoLostWakeup
  BY DEF CompletionInv
<1>2. p \in Awake /\ queue' = list_del(queue, p) /\ state' = state
      /\ pending' = pending
  BY DEF LoopTakes, LoopTimedOut, LoopInterrupted
<1>3. /\ queue' \in Seq(Procs) /\ QueuedOnce' /\ OnlyQueuedSleep'
      /\ Asleep' = Asleep /\ Cardinality(Awake') = Cardinality(Awake) - 1
  BY <1>2, LeaveStep
<1>4. CASE LoopTakes(p)
  <2>1. wait[p].timeout \in 0 .. MAX_SCHEDULE_TIMEOUT
    BY <1>1 DEF TypeOK, WaitType
  <2>2. /\ done # 0 /\ TakeDone(p, wait[p].timeout)
    BY <1>4 DEF LoopTakes
  <2>3. /\ done' = done - 1 /\ done' \in 0 .. UINT_MAX
        /\ wait' \in [Procs -> WaitType] /\ owed' \in Int
    BY <2>1, <2>2, <1>1, TakeStep
  <2>4. TypeOK'
    BY <2>3, <1>1, <1>2, <1>3 DEF TypeOK
  <2>5. Cardinality(Awake) \in Nat
    BY <1>1, WaitersType
  <2>6. NoLostWakeup'
    BY <2>3, <2>5, <1>1, <1>3 DEF NoLostWakeup, TypeOK
  <2> QED BY <2>4, <2>6, <1>3 DEF CompletionInv
<1>5. CASE LoopTimedOut(p) \/ LoopInterrupted(p)
  <2>1. done = 0 /\ done' = 0 /\ (Return(p, 0) \/ Return(p, -ERESTARTSYS))
    BY <1>5 DEF LoopTimedOut, LoopInterrupted
  <2>2. wait' \in [Procs -> WaitType] /\ owed' \in Int
    BY <2>1, <1>1, ReturnStep DEF ERESTARTSYS
  <2>3. TypeOK'
    BY <2>1, <2>2, <1>1, <1>2, <1>3 DEF TypeOK
  <2>4. NoLostWakeup'
    BY <2>1, <1>3, ZeroCovered
  <2> QED BY <2>3, <2>4, <1>3 DEF CompletionInv
<1> QED BY <1>4, <1>5

(* The waits that return at once.                                          *)
LEMMA PassingStep ==
  ASSUME CompletionInv, NEW p \in Procs, NEW c \in Calls,
         WaitTakes(p, c) \/ WaitInterrupted(p, c)
  PROVE  CompletionInv'
<1>1. TypeOK
  BY DEF CompletionInv
<1>2. queue' = queue /\ state' = state /\ pending' = pending
  BY DEF WaitTakes, WaitInterrupted
<1>3. CASE WaitTakes(p, c)
  <2>1. c.timeout \in 0 .. MAX_SCHEDULE_TIMEOUT
    BY CompletionAssumption DEF WaitType
  <2>2. done # 0 /\ TakeDone(p, c.timeout)
    BY <1>3 DEF WaitTakes
  <2>3. /\ done' = done - 1
        /\ wait' \in [Procs -> WaitType] /\ owed' \in Int
    BY <2>1, <2>2, <1>1, TakeStep
  <2> QED BY <2>2, <2>3, <1>2, PassingTake
<1>4. CASE WaitInterrupted(p, c)
  <2>1. done' = done /\ Return(p, -ERESTARTSYS)
    BY <1>4 DEF WaitInterrupted
  <2>2. wait' \in [Procs -> WaitType] /\ owed' \in Int
    BY <2>1, <1>1, ReturnStep DEF ERESTARTSYS
  <2>3. done' = done \/ (done # 0 /\ done' = done - 1)
    BY <2>1
  <2> QED BY <2>2, <2>3, <1>2, PassingTake
<1> QED BY <1>3, <1>4

(* The attempt that never waits.                                           *)
LEMMA TryWaitStep ==
  ASSUME CompletionInv, NEW p \in Procs, try_wait_for_completion(p)
  PROVE  CompletionInv'
<1>1. TypeOK
  BY DEF CompletionInv
<1>2. queue' = queue /\ state' = state /\ pending' = pending
  BY DEF try_wait_for_completion
<1>3. CASE done = 0
  <2>1. Return(p, 0) /\ done' = done
    BY <1>3, Zenon DEF try_wait_for_completion
  <2>2. wait' \in [Procs -> WaitType] /\ owed' \in Int
    BY <2>1, <1>1, ReturnStep
  <2>3. done' = done \/ (done # 0 /\ done' = done - 1)
    BY <2>1
  <2> QED BY <2>2, <2>3, <1>2, PassingTake
<1>4. CASE done # 0
  <2>1. Return(p, 1) /\ done' = done - 1
    BY <1>4, Zenon DEF try_wait_for_completion
  <2>2. wait' \in [Procs -> WaitType] /\ owed' \in Int
    BY <2>1, <1>1, ReturnStep
  <2> QED BY <2>1, <2>2, <1>2, <1>4, PassingTake
<1> QED BY <1>3, <1>4

(* The clock and the signals wake waiters, and never touch the counter.    *)
LEMMA OutsideStep ==
  ASSUME CompletionInv, NEW p \in Procs,
         TimerFires(p) \/ HandleSignals(p) \/ \E s \in Signals : SendSignal(p, s)
  PROVE  CompletionInv'
<1>1. TypeOK
  BY DEF CompletionInv
<1>2. CASE HandleSignals(p)
  <2>1. /\ done' = done /\ queue' = queue /\ state' = state
        /\ wait' = wait /\ owed' = owed
        /\ pending' \in [Procs -> {"none", "signal", "kill"}]
    BY <1>1, <1>2 DEF HandleSignals, TypeOK
  <2>2. TypeOK'
    BY <2>1, <1>1 DEF TypeOK
  <2>3. Waiters' = Waiters /\ Asleep' = Asleep /\ Awake' = Awake
    BY <2>1 DEF Waiters, Asleep, Awake
  <2> QED BY <2>1, <2>2, <2>3 DEF CompletionInv, QueuedOnce, OnlyQueuedSleep,
                                  NoLostWakeup
<1>3. CASE TimerFires(p) \/ \E s \in Signals : SendSignal(p, s)
  <2>1. /\ done' = done /\ queue' = queue /\ owed' = owed
        /\ wait' \in [Procs -> WaitType]
        /\ pending' \in [Procs -> {"none", "signal", "kill"}]
    <3>1. CASE TimerFires(p)
      <4>1. 0 \in 0 .. MAX_SCHEDULE_TIMEOUT
        BY CompletionAssumption
      <4>2. wait[p] \in WaitType
        BY <1>1 DEF TypeOK
      <4>3. [wait[p] EXCEPT !.timeout = 0] \in WaitType
        BY <4>1, <4>2 DEF WaitType
      <4> QED BY <4>3, <3>1, <1>1 DEF TimerFires, TypeOK
    <3>2. ASSUME NEW s \in Signals, SendSignal(p, s)
          PROVE  /\ done' = done /\ queue' = queue /\ owed' = owed
                 /\ wait' \in [Procs -> WaitType]
                 /\ pending' \in [Procs -> {"none", "signal", "kill"}]
      <4>1. s \in {"none", "signal", "kill"}
        BY CompletionAssumption
      <4> QED BY <4>1, <3>2, <1>1 DEF SendSignal, TypeOK
    <3> QED BY <3>1, <3>2, <1>3
  <2>2. PICK S \in SUBSET Procs : Wake(S)
    <3>1. {p} \in SUBSET Procs /\ {} \in SUBSET Procs
      OBVIOUS
    <3> QED BY <3>1, <1>3, Zenon DEF TimerFires, SendSignal
  <2>3. QueuedOnce' /\ OnlyQueuedSleep' /\ NoLostWakeup'
    BY <2>1, <2>2, WakeKeeps
  <2>4. state' \in [Procs -> SleepStates \cup {"RUNNING"}]
    BY <2>1, <2>2, <1>1, WakeStep DEF CompletionInv
  <2>5. TypeOK'
    BY <2>1, <2>4, <1>1 DEF TypeOK
  <2> QED BY <2>3, <2>5 DEF CompletionInv
<1> QED BY <1>2, <1>3

(* Every step keeps the invariant.                                         *)
LEMMA CompletionInductive == CompletionInv /\ [Next]_vars => CompletionInv'
<1> SUFFICES ASSUME CompletionInv, [Next]_vars
             PROVE  CompletionInv'
  OBVIOUS
<1>1. CASE UNCHANGED vars
  BY <1>1 DEF vars, CompletionInv, TypeOK, QueuedOnce, OnlyQueuedSleep,
              NoLostWakeup, Waiters, Asleep, Awake
<1>2. CASE complete
  BY <1>2, CompleteStep
<1>3. CASE complete_all
  BY <1>3, CompleteAllStep
<1>4. ASSUME NEW p \in Procs, NEW c \in Calls,
             WaitTakes(p, c) \/ WaitInterrupted(p, c) \/ WaitSleeps(p, c)
      PROVE  CompletionInv'
  BY <1>4, PassingStep, WaitSleepsStep
<1>5. ASSUME NEW p \in Procs,
             LoopTakes(p) \/ LoopTimedOut(p) \/ LoopInterrupted(p) \/ LoopSleeps(p)
      PROVE  CompletionInv'
  BY <1>5, LoopLeavesStep, LoopSleepsStep
<1>6. ASSUME NEW p \in Procs, try_wait_for_completion(p)
      PROVE  CompletionInv'
  BY <1>6, TryWaitStep
<1>7. ASSUME NEW p \in Procs, NEW s \in Signals, SendSignal(p, s)
      PROVE  CompletionInv'
  BY <1>7, OutsideStep
<1>8. ASSUME NEW p \in Procs, TimerFires(p) \/ HandleSignals(p)
      PROVE  CompletionInv'
  BY <1>8, OutsideStep
<1> QED BY <1>1, <1>2, <1>3, <1>4, <1>5, <1>6, <1>7, <1>8 DEF Next

(* Events move from the counter to the callers one by one.                 *)
LEMMA EventsInductive ==
  CompletionInv /\ EventsConserved /\ [Next]_vars => EventsConserved'
<1> SUFFICES ASSUME CompletionInv, EventsConserved, [Next]_vars
             PROVE  EventsConserved'
  OBVIOUS
<1>1. TypeOK /\ done = owed
  BY DEF CompletionInv, EventsConserved
<1>2. ASSUME done' = done, owed' = owed
      PROVE  EventsConserved'
  BY <1>1, <1>2 DEF EventsConserved
<1>3. ASSUME NEW n, Post(n)
      PROVE  EventsConserved'
  BY <1>1, <1>3 DEF EventsConserved, Post
<1>4. ASSUME NEW p \in Procs, NEW t \in 0 .. MAX_SCHEDULE_TIMEOUT, done # 0,
             TakeDone(p, t)
      PROVE  EventsConserved'
  <2>1. done' = done - 1 /\ owed' = owed - 1
    BY <1>1, <1>4, TakeStep
  <2> QED BY <2>1, <1>1 DEF EventsConserved
<1>5. ASSUME NEW p \in Procs, done' = done,
             Return(p, 0) \/ Return(p, -ERESTARTSYS)
      PROVE  EventsConserved'
  <2>1. owed' = owed
    BY <1>1, <1>5 DEF Return, ERESTARTSYS
  <2> QED BY <2>1, <1>2, <1>5
<1>6. CASE complete \/ complete_all
  BY <1>6, <1>3 DEF complete, complete_all
<1>7. ASSUME NEW p \in Procs, NEW c \in Calls, WaitTakes(p, c)
      PROVE  EventsConserved'
  <2>1. c.timeout \in 0 .. MAX_SCHEDULE_TIMEOUT
    BY CompletionAssumption DEF WaitType
  <2> QED BY <2>1, <1>4, <1>7 DEF WaitTakes
<1>8. ASSUME NEW p \in Procs, NEW c \in Calls, WaitInterrupted(p, c)
      PROVE  EventsConserved'
  <2>1. done' = done /\ Return(p, -ERESTARTSYS)
    BY <1>8 DEF WaitInterrupted
  <2> QED BY <2>1, <1>5
<1>9. ASSUME NEW p \in Procs, LoopTakes(p)
      PROVE  EventsConserved'
  <2>1. wait[p].timeout \in 0 .. MAX_SCHEDULE_TIMEOUT
    BY <1>1 DEF TypeOK, WaitType
  <2> QED BY <2>1, <1>4, <1>9 DEF LoopTakes
<1>10. ASSUME NEW p \in Procs, LoopTimedOut(p) \/ LoopInterrupted(p)
       PROVE  EventsConserved'
  <2>1. done' = done /\ (Return(p, 0) \/ Return(p, -ERESTARTSYS))
    BY <1>10 DEF LoopTimedOut, LoopInterrupted
  <2> QED BY <2>1, <1>5
<1>11. ASSUME NEW p \in Procs, try_wait_for_completion(p)
       PROVE  EventsConserved'
  <2>1. CASE done = 0
    <3>1. Return(p, 0) /\ done' = done
      BY <1>11, <2>1, Zenon DEF try_wait_for_completion
    <3> QED BY <3>1, <1>5
  <2>2. CASE done # 0
    <3>1. Return(p, 1) /\ done' = done - 1
      BY <1>11, <2>2, Zenon DEF try_wait_for_completion
    <3>2. owed' = owed - 1
      BY <3>1 DEF Return
    <3> QED BY <3>1, <3>2, <1>1 DEF EventsConserved
  <2> QED BY <2>1, <2>2
<1>12. CASE UNCHANGED vars
  BY <1>12, <1>2 DEF vars
<1>13. ASSUME NEW p \in Procs,
              \/ \E c \in Calls : WaitSleeps(p, c)
              \/ LoopSleeps(p) \/ TimerFires(p) \/ HandleSignals(p)
              \/ \E s \in Signals : SendSignal(p, s)
       PROVE  EventsConserved'
  <2>1. done' = done /\ owed' = owed
    BY <1>13 DEF WaitSleeps, LoopSleeps, TimerFires, HandleSignals, SendSignal
  <2> QED BY <2>1, <1>2
<1> QED BY <1>6, <1>7, <1>8, <1>9, <1>10, <1>11, <1>12, <1>13 DEF Next

-----------------------------------------------------------------------------
(* In every reachable state the queue and the sleep states of do_wait_for_ *)
(* common agree, and every event has a waiter on its way to it.            *)
THEOREM CompletionCorrect == Spec => []CompletionInv
<1>1. Init => CompletionInv
  <2> SUFFICES ASSUME Init PROVE CompletionInv
    OBVIOUS
  <2>1. NotWaiting \in WaitType
    BY CompletionAssumption DEF NotWaiting, WaitType, SleepStates
  <2>2. TypeOK
    BY <2>1, CompletionAssumption DEF Init, TypeOK
  <2>3. Waiters = {} /\ Asleep = {}
    BY DEF Init, Waiters, Asleep
  <2> QED BY <2>2, <2>3 DEF Init, CompletionInv, QueuedOnce, QueueHolds,
                            OnlyQueuedSleep, NoLostWakeup, Waiters
<1> QED BY <1>1, CompletionInductive, PTL DEF Spec

(* complete and the wait loop lose no wakeup, for any number of waiters    *)
(* and however timers and signals fall.                                    *)
THEOREM NoWakeupLost == Spec => []NoLostWakeup
<1>1. CompletionInv => NoLostWakeup
  BY DEF CompletionInv
<1> QED BY <1>1, CompletionCorrect, PTL

(* do_wait_for_common and try_wait_for_completion report every posted      *)
(* event exactly once.                                                     *)
THEOREM EventsKept == Spec => []EventsConserved
<1>1. Init => EventsConserved
  BY DEF Init, EventsConserved
<1> QED BY <1>1, EventsInductive, CompletionCorrect, PTL DEF Spec

(* A step that posts events wakes the first sleeper or all, and one that   *)
(* takes an event wakes nobody.                                            *)
LEMMA OrderStep ==
  ASSUME CompletionInv, Next, done' # done,
         NEW i \in DOMAIN queue, NEW j \in DOMAIN queue, i < j,
         state[queue[i]] # "RUNNING", state[queue[j]] # "RUNNING",
         state'[queue[j]] = "RUNNING"
  PROVE  state'[queue[i]] = "RUNNING"
<1>1. TypeOK /\ QueuedOnce
  BY DEF CompletionInv
<1>2. queue[i] \in Procs /\ queue[j] \in Procs /\ i \in Nat /\ j \in Nat
  BY <1>1 DEF TypeOK
<1>3. queue[i] \in Asleep /\ queue[j] \in Asleep
  BY DEF Asleep, Waiters
<1>4. CASE complete
  <2>1. Wake(first_asleep)
    BY <1>4 DEF complete, wake_up_common
  <2>2. queue[j] \in first_asleep
    BY <2>1, <1>2 DEF Wake
  <2>3. PICK m \in DOMAIN queue :
          queue[m] = queue[j] /\ \A k \in 1 .. m - 1 : state[queue[k]] = "RUNNING"
    BY <2>2 DEF first_asleep
  <2>4. m = j
    BY <2>3, <1>1 DEF QueuedOnce, QueueHolds
  <2>5. i \in 1 .. m - 1
    BY <2>4, <1>1, <1>2 DEF TypeOK
  <2> QED BY <2>3, <2>5
<1>5. CASE complete_all
  <2>1. Wake(Asleep)
    BY <1>5 DEF complete_all, wake_up_common
  <2> QED BY <2>1, <1>2, <1>3 DEF Wake
<1>6. CASE ~complete /\ ~complete_all
  <2>1. state' = state
    BY <1>6 DEF Next, WaitTakes, WaitInterrupted, WaitSleeps, LoopTakes, LoopTimedOut,
                LoopInterrupted, LoopSleeps, try_wait_for_completion, TimerFires,
                SendSignal, HandleSignals
  <2> QED BY <2>1
<1> QED BY <1>4, <1>5, <1>6

(* "Threads will be awakened in the same order in which they were queued", *)
(* as the comment on complete says, though others may be awake already.    *)
THEOREM InOrder == Spec => WokenInOrder
<1>1. CompletionInv /\ [Next]_vars =>
        [\A i, j \in DOMAIN queue :
           /\ i < j
           /\ done' # done
           /\ state[queue[i]] # "RUNNING"
           /\ state[queue[j]] # "RUNNING"
           /\ state'[queue[j]] = "RUNNING"
           => state'[queue[i]] = "RUNNING"]_vars
  <2> SUFFICES ASSUME CompletionInv, Next, NEW i \in DOMAIN queue, NEW j \in DOMAIN queue,
                      i < j, done' # done, state[queue[i]] # "RUNNING",
                      state[queue[j]] # "RUNNING", state'[queue[j]] = "RUNNING"
               PROVE  state'[queue[i]] = "RUNNING"
    BY Zenon
  <2> QED BY OrderStep
<1> QED BY <1>1, CompletionCorrect, PTL DEF Spec, WokenInOrder

=============================================================================
