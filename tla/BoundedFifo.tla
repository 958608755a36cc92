---------------------------- MODULE BoundedFifo ----------------------------
(***************************************************************************)
(* What rt/spsc_ring.h promises the thread that pushes and the callback    *)
(* that pops: first in, first out, nothing lost or made up, a push refused *)
(* only when the queue is full, and a push that Free() has promised room   *)
(* for never refused.                                                      *)
(***************************************************************************)
EXTENDS Naturals, Sequences

CONSTANTS Items, Bound

VARIABLES
  queue,      \* pushed and not yet popped
  reserved,   \* pushes that still have the room Free() reported
  outcome,    \* of the last push
  delivered   \* the last item popped

vars == <<queue, reserved, outcome, delivered>>

Init ==
  /\ queue = << >>
  /\ reserved = 0
  /\ outcome = "none"
  /\ delivered = << >>

Put(item) ==
  /\ Len(queue) < Bound
  /\ queue' = Append(queue, item)
  /\ reserved' = IF reserved > 0 THEN reserved - 1 ELSE 0
  /\ outcome' = "accepted"
  /\ UNCHANGED delivered

Refuse ==
  /\ Len(queue) = Bound
  /\ reserved = 0
  /\ outcome' = "refused"
  /\ UNCHANGED <<queue, reserved, delivered>>

Reserve(n) ==
  /\ Len(queue) + n <= Bound
  /\ reserved' = n
  /\ UNCHANGED <<queue, outcome, delivered>>

Take ==
  /\ queue # << >>
  /\ delivered' = <<Head(queue)>>
  /\ queue' = Tail(queue)
  /\ UNCHANGED <<reserved, outcome>>

Next ==
  \/ \E item \in Items : Put(item)
  \/ Refuse
  \/ \E n \in 0..Bound : Reserve(n)
  \/ Take

Spec == Init /\ [][Next]_vars
=============================================================================
