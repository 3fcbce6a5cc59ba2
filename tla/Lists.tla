------------------------------- MODULE Lists -------------------------------
(***************************************************************************)
(* The kernel's doubly linked lists (linux/list.h), as the run queue and   *)
(* the wait queues use them: a sequence of entries, each at most once.     *)
(***************************************************************************)
EXTENDS Integers, Sequences

(***************************************************************************)
(* list_add, list_add_tail and list_del_init of the kernel's linked lists. *)
(* Deleting an entry that is on no list leaves every list as it is.        *)
(***************************************************************************)
list_add(q, p) == <<p>> \o q

list_add_tail(q, p) == Append(q, p)

list_del(q, p) ==
  IF \E i \in DOMAIN q : q[i] = p
  THEN LET i == CHOOSE j \in DOMAIN q : q[j] = p
       IN  [k \in 1 .. Len(q) - 1 |-> IF k < i THEN q[k] ELSE q[k + 1]]
  ELSE q

list_move_tail(q, p) == list_add_tail(list_del(q, p), p)

(* The list q holds the members of W, each of them exactly once.           *)
QueueHolds(q, W) ==
  /\ \A i, j \in DOMAIN q : q[i] = q[j] => i = j
  /\ { q[i] : i \in DOMAIN q } = W
=============================================================================
