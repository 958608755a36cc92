--------------------------- MODULE MCRtPublisher ---------------------------
(***************************************************************************)
(* RtPublisher on three addresses, a grace window of two units and blocks  *)
(* of one or two units.                                                    *)
(***************************************************************************)
EXTENDS RtPublisher, TLC

BlockLengths == {1, 2}

AddressSymmetry == Permutations(Addrs)
=============================================================================
