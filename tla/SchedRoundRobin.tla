--------------------------- MODULE SchedRoundRobin ---------------------------
(***************************************************************************)
(* The WRR class of Sched as a round robin class: its queue is the ring,   *)
(* and the member served is the current task, if it is of the class.       *)
(***************************************************************************)
EXTENDS Sched

RR == INSTANCE RoundRobin WITH
        Members <- Tasks, Nobody <- Idle, ring <- rq.queue,
        served <- IF ClassOf(task, curr) = "wrr" THEN curr ELSE Idle

(* The scheduler implements the round robin class: wakeups, policy         *)
(* changes, renicing, group moves and forks add tasks at the end, a task   *)
(* at the end of its slice or that yields goes to the end, and the one in  *)
(* front is picked.                                                        *)
ServesInTurn == RR!Spec
=============================================================================
