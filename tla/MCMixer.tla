------------------------------ MODULE MCMixer ------------------------------
(* The mixer, from the publisher its song is handed over by to the players that *)
(* share it, each part of it run alone from its own initial states.  A          *)
(* behaviour is of the one part that "part" names: of RtPublisher, HandOver or     *)
(* MixerSession in its own variables, of LyricRetime in v1, v2, ..., in the     *)
(* order of its module, which are 0 where it does not run.                      *)
(*                                                                              *)
(* MixerSession has two stem screens and one song screen, which is every pair   *)
(* of players that can meet: one player displaced by itself, and by the other;  *)
(* three sessions with a tap in one of them, and two with two.  The hand-over   *)
(* has two key buses and three calls, one of which may fail or time out.        *)
EXTENDS RtPublisher, HandOver, MixerSession, Sequences, FiniteSets

CONSTANTS stemA, stemB, songC, syncedSong, plainSong, NoLyrics

\* What the theorems of HandOverProofs have as their hypothesis.
ASSUME BankConstants == HandOverConstants

BlockLengths == {1, 2}

MCScreens == {stemA, stemB, songC}
MCPlayerOf == [s \in MCScreens |-> IF s = songC THEN "song" ELSE "stem"]

VARIABLES
  part,  \* which of them runs
  v1, v2, v3, v4, v5, v6, v7, v8, v9, v10, v11, v12, v13, v14, v15, v16,
  v17, v18, v19, v20

\* A synced song with a blank line between two sung ones, and a plain song:
\* taken twice in one session, and at two speeds of the user over several.
Line(time, sung) == [time |-> time, sung |-> sung]

Bundles ==
  [set \in {syncedSong, plainSong} |->
    IF set = syncedSong
    THEN [synced |-> <<Line(4, TRUE), Line(1, TRUE), Line(3, FALSE)>>,
        offsetTag |-> 1, offset |-> 0, plain |-> 0, instrumental |-> FALSE]
    ELSE [synced |-> <<>>, offsetTag |-> 0, offset |-> 0, plain |-> 2,
        instrumental |-> FALSE]]
Retime == INSTANCE LyricRetime WITH
       Sets <- {syncedSong, plainSong}, Bundle <- Bundles, Null <- NoLyrics,
       Untimed <- 99, Length <- 2, Room <- {"drawn"}, UserRates <- {2},
       RetimeRate <- 3, MaxSessions <- 1, MaxTakes <- 2, MaxTaps <- 2,
       MaxShift <- 1, MaxRefusals <- 1, row <- v1, status <- v2,
       setId <- v3, lyrics <- v4, retime <- v5, failure <- v6, asking <- v7,
       landed <- v8, layout <- v9, session <- v10, busySession <- v11,
       calls <- v12, steps <- v13, at <- v14, generation <- v15,
       rates <- v16, engineRate <- v17, takes <- v18, refusals <- v19,
       short <- v20

Speed == INSTANCE LyricRetime WITH
       Sets <- {syncedSong, plainSong}, Bundle <- Bundles, Null <- NoLyrics,
       Untimed <- 99, Length <- 1, Room <- {}, UserRates <- {2, 4},
       RetimeRate <- 3, MaxSessions <- 2, MaxTakes <- 2, MaxTaps <- 1,
       MaxShift <- 0, MaxRefusals <- 1, row <- v1, status <- v2,
       setId <- v3, lyrics <- v4, retime <- v5, failure <- v6, asking <- v7,
       landed <- v8, layout <- v9, session <- v10, busySession <- v11,
       calls <- v12, steps <- v13, at <- v14, generation <- v15,
       rates <- v16, engineRate <- v17, takes <- v18, refusals <- v19,
       short <- v20

-----------------------------------------------------------------------------
Rest1 == <<v1, v2, v3, v4, v5, v6, v7, v8, v9, v10, v11, v12, v13, v14, v15,
           v16, v17, v18, v19, v20>>

Free1 == v1 = 0 /\ v2 = 0 /\ v3 = 0 /\ v4 = 0 /\ v5 = 0 /\ v6 = 0 /\ v7 = 0
  /\ v8 = 0 /\ v9 = 0 /\ v10 = 0 /\ v11 = 0 /\ v12 = 0 /\ v13 = 0 /\ v14 = 0
  /\ v15 = 0 /\ v16 = 0 /\ v17 = 0 /\ v18 = 0 /\ v19 = 0 /\ v20 = 0

allVars == <<part, vars, handOverVars, sessionVars, Rest1>>

MCInit ==
  /\ Init /\ HandOverInit /\ SessionInit
  /\ \/ part \in {"publisher", "handover", "session"} /\ Free1
     \/ part = "retime" /\ Retime!Init
     \/ part = "speed" /\ Speed!Init

Others ==
  \/ part = "retime" /\ Retime!Next
  \/ part = "speed" /\ Speed!Next
  \* The players rest when nobody touches them; the others never do.
  \/ part \in {"session", "retime", "speed"} /\ UNCHANGED Rest1

MCNext ==
  /\ UNCHANGED part
  /\ \/ part = "publisher" /\ Next /\ UNCHANGED <<handOverVars, sessionVars, Rest1>>
     \/ part = "handover" /\ HandOverNext /\ UNCHANGED <<vars, sessionVars, Rest1>>
     \/ part = "session" /\ SessionNext /\ UNCHANGED <<vars, handOverVars, Rest1>>
     \/ Others /\ UNCHANGED <<vars, handOverVars, sessionVars>>

MCSpec == MCInit /\ [][MCNext]_allVars

-----------------------------------------------------------------------------
(* The properties of RtPublisher, HandOver and MixerSession are their own.  *)

\* Times saved read back as they were tapped, a take is not lost or disordered
\* by what crosses it, and the speed goes back to the user's (retime*.ts).
TakesAreKept ==
  /\ part = "retime" => /\ Retime!SavedReadsBack
                        /\ Retime!TakeIsKept
                        /\ Retime!RateIsTheUsers
  /\ part = "speed" => /\ Speed!SavedReadsBack
                       /\ Speed!TakeIsKept
                       /\ Speed!RateIsTheUsers
=============================================================================
