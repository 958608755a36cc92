---------------------------- MODULE MCTransportCard ----------------------------
(* TransportCard with taps and shows enough for a second start to cross the     *)
(* stop of the first.                                                           *)
EXTENDS TransportCard
================================================================================
