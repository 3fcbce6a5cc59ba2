--------------------------- MODULE MCCompletion ---------------------------
(* Instances of Completion for TLC.                                        *)
EXTENDS Completion, TLC

(* wait_for_completion, wait_for_completion_interruptible_timeout and      *)
(* wait_for_completion_killable_timeout, the last with no time at all.     *)
SomeCalls ==
  { [state |-> "UNINTERRUPTIBLE", timeout |-> MAX_SCHEDULE_TIMEOUT],
    [state |-> "INTERRUPTIBLE", timeout |-> 1],
    [state |-> "KILLABLE", timeout |-> 0] }
=============================================================================
