----------------------------- MODULE MCSettles -----------------------------
(* What must come about: a source is stopped and is read to its end, a          *)
(* player's load settles.  A behaviour is of the one part that "part" names,    *)
(* under the fairness of that part alone; the other stays as it begins.         *)
(*                                                                              *)
(* The source reads a file of five frames through a ring of four.  A chunk is   *)
(* half the ring, so the ring fills, drains and wraps, and the file ends inside *)
(* a chunk when read from the start and at the end of one when read from frame  *)
(* 1.  Of the players, two screens open the stem player and one the song's.     *)
EXTENDS AudioSource

CONSTANTS stemA, stemB, songC

VARIABLES
  part,  \* "source" or "session"
  \* MixerSession's.
  claim, players, screens, top, editing, answers, db, engine, tool, stopEvent,
  taps, user

sessionVars ==
  <<claim, players, screens, top, editing, answers, db, engine, tool, stopEvent,
    taps, user>>

MCScreens == {stemA, stemB, songC}

Mixer == INSTANCE MixerSession WITH
  Screens <- MCScreens,
  PlayerOf <- [s \in MCScreens |-> IF s = songC THEN "song" ELSE "stem"],
  Stems <- {"s1"}, Loops <- {"l1"}, Names <- {"typed"}, FirstName <- "bundled",
  MaxOpens <- 3, MaxTaps <- 1, MaxWork <- 4

-----------------------------------------------------------------------------
MCInit ==
  /\ part \in {"source", "session"}
  /\ SourceInit /\ Mixer!SessionInit

MCNext ==
  /\ UNCHANGED part
  /\ \/ part = "source" /\ SourceNext /\ UNCHANGED sessionVars
     \/ part = "session" /\ Mixer!SessionNext /\ UNCHANGED sourceVars
     \* The players rest when nobody touches them; the source never does.
     \/ part = "session" /\ UNCHANGED <<sourceVars, sessionVars>>

InSource(A) == part = "source" /\ A
InSession(A) == part = "session" /\ A

\* Each part's own fairness, as its module states and accounts for it.
Fairness ==
  /\ WF_sourceVars(InSource(ThreadSteps))
  /\ SF_sourceVars(InSource(ReaderProgresses))
  /\ WF_sourceVars(InSource(StopSteps))
  /\ WF_sourceVars(InSource(ReadSteps))
  /\ WF_sessionVars(InSession(Mixer!AnAnswer))
  /\ WF_sessionVars(InSession(Mixer!DbRead))
  /\ WF_sessionVars(InSession(Mixer!DbSave))
  /\ WF_sessionVars(InSession(Mixer!DbRename))

MCSpec == MCInit /\ [][MCNext]_<<part, sourceVars, sessionVars>> /\ Fairness

-----------------------------------------------------------------------------
\* A player that loads comes to play or to say what failed, however its answers
\* cross the screens that come and go (core-state player stores).
LoadSettles == Mixer!LoadSettles
=============================================================================
