------------------------------ MODULE SpscRing ------------------------------
(***************************************************************************)
(* rt/spsc_ring.h: the ring between one control thread at a time and the   *)
(* audio callback, as the steps each side's loads and stores take.  Each   *)
(* index has one writer; the other side may have loaded it long ago.  A    *)
(* slot is copied between the load that allows it and the store that hands *)
(* it over, so a copy is a step of its own.                                *)
(***************************************************************************)
EXTENDS Integers, Sequences

CONSTANTS
  Capacity,   \* slots of the ring; one is always empty
  Items,      \* what is queued
  Blank       \* a slot never written

ASSUME RingAssumption ==
  /\ Capacity \in Nat \ {0}
  /\ Blank \notin Items

VARIABLES
  slots,      \* slots_
  head,       \* head_: the producer's index
  tail,       \* tail_: the consumer's index
  push,       \* the push in progress
  pop,        \* the pop in progress
  reserved,   \* pushes that still have the room Free() reported
  outcome,    \* what the last Push returned
  delivered   \* what the last successful Pop put in *out

producerVars == <<slots, head, push, reserved, outcome>>
consumerVars == <<tail, pop, delivered>>
spscVars == <<producerVars, consumerVars>>

Indices == 0..(Capacity - 1)

\* Mutant: the mask is forgotten and the index runs on past the last slot.
WrapForgotten(n) == n

\* index & kMask, for an index at most one round past the last slot.
Wrap(n) == IF n < Capacity THEN n ELSE n - Capacity

\* (head - tail) & kMask.
Used(h, t) == IF h >= t THEN h - t ELSE h + Capacity - t

RingInit ==
  /\ slots = [i \in Indices |-> Blank]
  /\ head = 0
  /\ tail = 0
  /\ push = [pc |-> "idle", item |-> Blank]
  /\ pop = [pc |-> "idle", got |-> Blank]
  /\ reserved = 0
  /\ outcome = "none"
  /\ delivered = << >>

-----------------------------------------------------------------------------
(* Producer. *)

\* Mutant: the empty slot is not kept, and full looks the same as empty.
FullOverlooked(h, t) == FALSE

Full(h, t) == Wrap(h + 1) = t

\* Push compares the next index with tail_.
PushBegins(item) ==
  /\ push.pc = "idle"
  /\ IF Full(head, tail)
     THEN outcome' = "refused" /\ UNCHANGED push
     ELSE push' = [pc |-> "copying", item |-> item] /\ UNCHANGED outcome
  /\ UNCHANGED <<slots, head, reserved, consumerVars>>

PushCopies ==
  /\ push.pc = "copying"
  /\ slots' = [slots EXCEPT ![head] = push.item]
  /\ push' = [push EXCEPT !.pc = "storing"]
  /\ UNCHANGED <<head, reserved, outcome, consumerVars>>

PushStores ==
  /\ push.pc = "storing"
  /\ head' = Wrap(head + 1)
  /\ push' = [push EXCEPT !.pc = "idle"]
  /\ outcome' = "accepted"
  /\ reserved' = IF reserved > 0 THEN reserved - 1 ELSE 0
  /\ UNCHANGED <<slots, consumerVars>>

\* Mutant: the slot that is always empty is counted as room.
FreeOverstated == Capacity - Used(head, tail)

Free == Capacity - 1 - Used(head, tail)

\* A caller that needs room for n pushes asks Free() first, as
\* Mixer::ReserveUndoableCommand does.
Reserve(n) ==
  /\ push.pc = "idle"
  /\ Free >= n
  /\ reserved' = n
  /\ UNCHANGED <<slots, head, push, outcome, consumerVars>>

-----------------------------------------------------------------------------
(* Consumer. *)

PopBegins ==
  /\ pop.pc = "idle"
  /\ tail # head
  /\ pop' = [pop EXCEPT !.pc = "copying"]
  /\ UNCHANGED <<tail, delivered, producerVars>>

PopCopies ==
  /\ pop.pc = "copying"
  /\ pop' = [pc |-> "storing", got |-> slots[tail]]
  /\ UNCHANGED <<tail, delivered, producerVars>>

PopStores ==
  /\ pop.pc = "storing"
  /\ tail' = Wrap(tail + 1)
  /\ delivered' = <<pop.got>>
  /\ pop' = [pop EXCEPT !.pc = "idle"]
  /\ UNCHANGED producerVars

-----------------------------------------------------------------------------

RingNext ==
  \/ \E item \in Items : PushBegins(item)
  \/ PushCopies
  \/ PushStores
  \/ \E n \in Indices : Reserve(n)
  \/ PopBegins
  \/ PopCopies
  \/ PopStores

RingSpec == RingInit /\ [][RingNext]_spscVars

-----------------------------------------------------------------------------

\* Every variable holds a value of its type.
RingTypeOK ==
  /\ slots \in [Indices -> Items \cup {Blank}]
  /\ head \in Indices
  /\ tail \in Indices
  /\ push \in [pc : {"idle", "copying", "storing"}, item : Items \cup {Blank}]
  /\ pop \in [pc : {"idle", "copying", "storing"}, got : Items \cup {Blank}]
  /\ reserved \in Indices
  /\ outcome \in {"none", "accepted", "refused"}

\* The two sides are never at the same slot: no item is read while it is being
\* written, and none is overwritten before it is read.
NoSlotRace == (push.pc # "idle" /\ pop.pc # "idle") => head # tail

\* The slots from tail to head, in order.
Contents == [i \in 1..Used(head, tail) |-> slots[Wrap(tail + i - 1)]]

Fifo == INSTANCE BoundedFifo WITH Bound <- Capacity - 1, queue <- Contents

\* The ring is a bounded queue: no interleaving of the two sides' steps loses,
\* repeats, reorders or makes up an item, refuses a push while there is room, or
\* refuses one that Free() has promised room for.
IsFifo == Fifo!Spec
=============================================================================
