----------------------------- MODULE RoundRobin -----------------------------
(***************************************************************************)
(* What a round robin class promises: its members stand in a ring, the one *)
(* in front is served, and one that has been served goes to the end.  A    *)
(* member never gets before another in any other way.                      *)
(***************************************************************************)
EXTENDS Lists

CONSTANTS
  Members,
  Nobody         \* served: no member

VARIABLES ring, served

vars == <<ring, served>>

InRing == {ring[i] : i \in DOMAIN ring}

Init == ring = <<>> /\ served = Nobody

(* Whom the server turns to: the front of the ring, or another class.      *)
Choice(q) == {Nobody} \cup (IF q = <<>> THEN {} ELSE {Head(q)})

(* A new member goes to the end.  If another class is being served, that   *)
(* may end with the same step, or the new member is the one it serves, and *)
(* goes on.                                                                *)
Join(p) ==
  /\ p \notin InRing
  /\ ring' = list_add_tail(ring, p)
  /\ served' \in {served} \cup (IF served = Nobody THEN {p} \cup Choice(ring') ELSE {})

(* If the member that is served leaves, the server turns to the front.     *)
Leave(p) ==
  /\ p \in InRing
  /\ ring' = list_del(ring, p)
  /\ IF served = p THEN served' \in Choice(ring') ELSE served' = served

(* The member that is served leaves and lets another in as it goes.        *)
Handover(p, w) ==
  /\ p \in InRing
  /\ w \notin InRing
  /\ served = p
  /\ ring' = list_add_tail(list_del(ring, p), w)
  /\ served' \in Choice(ring')

(* A member's turn is over, or it gives it up.                             *)
ToEnd(p) ==
  /\ p \in InRing
  /\ ring' = list_move_tail(ring, p)
  /\ served' \in {served} \cup Choice(ring')

Serve ==
  /\ ring' = ring
  /\ served' \in Choice(ring)

Next ==
  \/ \E p \in Members : Join(p) \/ Leave(p) \/ ToEnd(p)
  \/ \E p, w \in Members : Handover(p, w)
  \/ Serve

Spec == Init /\ [][Next]_vars
=============================================================================
