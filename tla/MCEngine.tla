------------------------------ MODULE MCEngine ------------------------------
(* The engine's lifecycle, and the transport that plays in it, each run alone   *)
(* from its own initial states.  A behaviour is of the one that "part" names:   *)
(* of EngineLifecycle in its own variables, of MixerTransport in v1, v2, ...,   *)
(* in the order of its module, which are 0 in the other.  The parts are         *)
(* instances of the module of its proofs, so that its theorems say of this run  *)
(* what EngineProofs takes from them.                                           *)
(*                                                                              *)
(* The watchdog has its real proportion: kStallAfter is six periods and the     *)
(* idle grace eight, three to four.                                             *)
EXTENDS EngineLifecycle, TLC

ThreadSymmetry == Permutations(Threads)

VARIABLES
  part,  \* which of them runs
  v1, v2, v3, v4, v5, v6, v7, v8, v9, v10, v11, v12, v13, v14, v15, v16, v17,
  v18

\* Two stems of unequal length and blocks of two frames.  Three calls with a few
\* places to seek to and to loop between, and four with one of each.  A source
\* holds two blocks in the first, so that a stem may leap over a layout.
Transport == INSTANCE MixerTransportProofs WITH
       Tracks <- {1, 2}, Frames <- <<6, 4>>, Block <- 2, Ring <- 4,
       MinLoop <- 2, SeekFrames <- {1, 6}, Loops <- {<<0, 3>>, <<2, 5>>},
       MaxCalls <- 3, MaxFrames <- 6, appEpoch <- v1, appLayout <- v2,
       longest <- v3, op <- v4, calls <- v5, source <- v6, node <- v7,
       queued <- v8, transport <- v9, jumpBase <- v10, adopted <- v11,
       cb <- v12, stream <- v13, epoch <- v14, layout <- v15,
       playing <- v16, heard <- v17, leapt <- v18

Longer == INSTANCE MixerTransportProofs WITH
       Tracks <- {1, 2}, Frames <- <<6, 4>>, Block <- 2, Ring <- 2,
       MinLoop <- 2, SeekFrames <- {6}, Loops <- {<<2, 5>>},
       MaxCalls <- 4, MaxFrames <- 6, appEpoch <- v1, appLayout <- v2,
       longest <- v3, op <- v4, calls <- v5, source <- v6, node <- v7,
       queued <- v8, transport <- v9, jumpBase <- v10, adopted <- v11,
       cb <- v12, stream <- v13, epoch <- v14, layout <- v15,
       playing <- v16, heard <- v17, leapt <- v18

-----------------------------------------------------------------------------
Rest1 == <<v1, v2, v3, v4, v5, v6, v7, v8, v9, v10, v11, v12, v13, v14, v15,
  v16, v17, v18>>

Free1 == v1 = 0 /\ v2 = 0 /\ v3 = 0 /\ v4 = 0 /\ v5 = 0 /\ v6 = 0 /\ v7 = 0
  /\ v8 = 0 /\ v9 = 0 /\ v10 = 0 /\ v11 = 0 /\ v12 = 0 /\ v13 = 0 /\ v14 = 0
  /\ v15 = 0 /\ v16 = 0 /\ v17 = 0 /\ v18 = 0

allVars == <<part, vars, Rest1>>

MCInit ==
  /\ Init
  /\ \/ part = "lifecycle" /\ Free1
     \/ part = "transport" /\ Transport!Init
     \/ part = "longer" /\ Longer!Init

MCNext ==
  /\ UNCHANGED part
  /\ \/ part = "lifecycle" /\ Next /\ UNCHANGED Rest1
     \/ part = "transport" /\ Transport!Next /\ UNCHANGED vars
     \/ part = "longer" /\ Longer!Next /\ UNCHANGED vars

MCSpec == MCInit /\ [][MCNext]_allVars

-----------------------------------------------------------------------------
\* What the stems play is the song at the head, none is left on an old layout
\* or reads ahead, and the head is where the app thread takes it to be
\* (mixer.cpp, mixer_render.cpp, streaming_track.cpp).
SongAtTheHead ==
  /\ part = "transport" => /\ Transport!TypeOK
                           /\ Transport!HeardAtTheHead
                           /\ Transport!NoStemStranded
                           /\ Transport!NoStemAhead
                           /\ Transport!HeadExact
  /\ part = "longer" => /\ Longer!TypeOK
                        /\ Longer!HeardAtTheHead
                        /\ Longer!NoStemStranded
                        /\ Longer!NoStemAhead
                        /\ Longer!HeadExact

\* A loop set or cleared under a playing head does not move the song
\* (mixer.cpp's keep plans).
KeepMovesNothing ==
  [][ /\ part = "transport" => Transport!KeepMovesNothing
      /\ part = "longer" => Longer!KeepMovesNothing ]_allVars
=============================================================================
