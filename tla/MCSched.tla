------------------------------ MODULE MCSched ------------------------------
(* Instances of Sched for TLC.                                             *)
EXTENDS SchedRoundRobin, TLC

(* What callers of sched_setscheduler ask for.                             *)
WrrParams == {<<"NORMAL", 0>>, <<"WRR", 0>>}

ClassParams == WrrParams \cup {<<"FIFO", 1>>}

(* A nice value that raises the priority.                                  *)
RaisedNice == {-5}
=============================================================================
