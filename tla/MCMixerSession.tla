--------------------------- MODULE MCMixerSession ---------------------------
(* Two stem screens and one song screen, which is every pair of players that *)
(* can meet: one player displaced by itself, and by the other.               *)
EXTENDS MixerSession, TLC

CONSTANTS stemA, stemB, songC

MCScreens == {stemA, stemB, songC}
MCPlayerOf == [s \in MCScreens |-> IF s = songC THEN "song" ELSE "stem"]

\* The two stem screens open the same player and differ in nothing.
MCSymmetry == Permutations({stemA, stemB})
=============================================================================
