----------------------------- MODULE MCHandOver -----------------------------
(* HandOver on small instances; the slots are filled and emptied in any order, *)
(* so they are interchangeable.                                                *)
EXTENDS HandOver, TLC

SlotSymmetry == Permutations(Slots)
=============================================================================
