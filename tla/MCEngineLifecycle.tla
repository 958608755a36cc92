------------------------- MODULE MCEngineLifecycle -------------------------
(***************************************************************************)
(* EngineLifecycle with the watchdog's real proportion: kStallAfter is six *)
(* periods and the idle grace eight, three to four.                        *)
(***************************************************************************)
EXTENDS EngineLifecycle, TLC

ThreadSymmetry == Permutations(Threads)
=============================================================================
