------------------------------ MODULE MCStage ------------------------------
(* What a player has before them on stage and the ring their taps go through    *)
(* to the callback, each part of it run alone from its own initial states.  A   *)
(* behaviour is of the one part that "part" names: of SpscRing, TunerReadout,   *)
(* RigRoutes, AppSettings, Sheets or TransportCard in its own variables, of     *)
(* another in v1, v2, ..., in the order of its module, 0 past its last.         *)
(*                                                                              *)
(* The readout hears hops in tune, one cent off, and past the dial on either    *)
(* side.  The rig has two outputs, and two counts and volumes.  The app runs    *)
(* twice, the second time with what the first has stored.  The host draws a     *)
(* menu and a prompt over two items.                                            *)
EXTENDS SpscRing, TunerReadout, RigRoutes, AppSettings, Sheets, TransportCard

HopErrors == {-24, 0, 4, 24}

VARIABLES
  part,  \* which of them runs
  v1, v2, v3, v4, v5, v6, v7, v8, v9, v10, v11, v12, v13, v14, v15, v16,
  v17, v18, v19, v20, v21, v22, v23

\* Two stored songs: a ramped one in another meter and a plain one.
TwoSongs ==
  <<[bpm |-> 1, beats |-> 2, den |-> 8, sub |-> 2, accents |-> <<0, 2>>,
     polyOn |-> TRUE, polyBeats |-> 2, against |-> 1,
     polyAccents |-> <<1, 0>>, sounds |-> [normal |-> 1, accent |-> 0],
     ramp |-> [on |-> TRUE, start |-> 1, target |-> 3, step |-> 1,
               interval |-> 3, unit |-> "seconds", loop |-> TRUE],
     mute |-> [on |-> TRUE, play |-> 1, mute |-> 2], countIn |-> 1],
    [bpm |-> 3, beats |-> 3, den |-> 4, sub |-> 1, accents |-> <<2, 1, 1>>,
     polyOn |-> FALSE, polyBeats |-> 3, against |-> 2,
     polyAccents |-> <<2, 1, 1>>, sounds |-> [normal |-> 0, accent |-> 1],
     ramp |-> [on |-> FALSE, start |-> 0, target |-> 0, step |-> 1,
               interval |-> 1, unit |-> "bars", loop |-> FALSE],
     mute |-> [on |-> FALSE, play |-> 0, mute |-> 0], countIn |-> 0]>>
Metronome == INSTANCE MetronomeSettings WITH
       MaxBeats <- 3, BpmMin <- 1, BpmMax <- 3, PolyMin <- 2, PolyMax <- 3,
       SubMax <- 2, RampBarsMax <- 2, RampSecMax <- 3, MuteMax <- 2,
       Sounds <- {0, 1}, CountInBars <- {0, 1}, Typed <- {9},
       StoredSongs <- TwoSongs, MaxOps <- 2, m <- v1, q <- v2, e <- v3,
       songs <- v4, loaded <- v5, prefs <- v6, clean <- v7, raced <- v8,
       refused <- v9, ops <- v10

\* Tempos 2 to 5: a swipe of three moves, two of one, or taps beside one.
MetronomeTool == INSTANCE MetronomeScreen WITH
       MinBpm <- 2, MaxBpm <- 5, Minute <- 4, Window <- 1, Fine <- 4,
       Reversal <- 2, FastGain <- 2, Songs <- {1, 2}, Tempos <- <<3, 5>>,
       MaxOps <- 4, bpm <- v1, clock <- v2, taps <- v3,
       swipe <- v4, posted <- v5, sheet <- v6, barSheet <- v7,
       pending <- v8, practised <- v9, hintSeen <- v10, zone <- v11,
       scrollable <- v12, loaded <- v13, staged <- v14, loading <- v15,
       stored <- v16, ops <- v17, handlers <- v18, history <- v19,
       turn <- v20, foreign <- v21, currentBpm <- v22, running <- v23

\* A song in a set, or none.
InASet == [set |-> "gig", song |-> "a"]
NothingLoaded == [set |-> "no set", song |-> "no song"]
Practice == INSTANCE PracticeSessions WITH
       Contexts <- {InASet, NothingLoaded}, Tempos <- {1, 2}, MaxNow <- 3,
       MaxTaps <- 5, MaxFaults <- 1, now <- v1, metronome <- v2,
       engineBpm <- v3, context <- v4, session <- v5, pending <- v6,
       saving <- v7, discardedWhileSaving <- v8, rows <- v9, screen <- v10,
       card <- v11, event <- v12, uuids <- v13, taps <- v14, faults <- v15,
       ran <- v16, ended <- v17, dropped <- v18

\* Two tunings, of two strings and of one, taken up twice: in and out of the
\* screen over a full ring, and then with notes that are heard and locked.
Microphone == INSTANCE Tuner WITH
       Tunings <- <<2, 1>>, A4s <- {1}, RingSize <- 1, MaxBusyRetries <- 1,
       RatioFull <- 2, MaxTrips <- 4, MaxSets <- 1, MaxHops <- 0, st <- v1,
       life <- v2, q <- v3, asks <- v4, eng <- v5, ui <- v6, flight <- v7,
       lost <- v8, wrong <- v9, trips <- v10, sets <- v11

Locks == INSTANCE Tuner WITH
       Tunings <- <<2, 1>>, A4s <- {}, RingSize <- 2, MaxBusyRetries <- 1,
       RatioFull <- 2, MaxTrips <- 1, MaxSets <- 1, MaxHops <- 4, st <- v1,
       life <- v2, q <- v3, asks <- v4, eng <- v5, ui <- v6, flight <- v7,
       lost <- v8, wrong <- v9, trips <- v10, sets <- v11

Standards == {[name |-> "standard", instrument |-> 0, notes |-> <<0>>],
              [name |-> "bass", instrument |-> 1, notes |-> <<0>>]}
TuningList == INSTANCE CustomTunings WITH
       BuiltIn <- Standards, Names <- {"", "a"}, Blank <- "",
       Instruments <- {0, 1}, Pitches <- {0, 1}, MaxStrings <- 2,
       MaxRows <- 2, MaxPending <- 2, MaxOps <- 7, table <- v1,
       nextId <- v2, rows <- v3, using <- v4, mode <- v5, screen <- v6,
       calls <- v7, ops <- v8

\* Two outputs, one of which changes during a run; and a run on one output,
\* with taps on the beat and beyond the bound.
Calibration == INSTANCE RigCalibration WITH
       Routes <- {"a", "b"}, Deviations <- {0}, Taps <- 2, MinUsable <- 2,
       Window <- 1, Limit <- 5, MaxMoves <- 2, MaxTurns <- 1,
       MaxFaults <- 1, MaxTaps <- 2, MaxWait <- 2, engine <- v1,
       device <- v2, calls <- v3, answers <- v4, events <- v5, cal <- v6,
       rig <- v7, screen <- v8, saves <- v9, stored <- v10, blind <- v11,
       crossed <- v12, spent <- v13

TapsMeasured == INSTANCE RigCalibration WITH
       Routes <- {"a", "b"}, Deviations <- {0, 9}, Taps <- 2,
       MinUsable <- 1, Window <- 1, Limit <- 5, MaxMoves <- 2,
       MaxTurns <- 0, MaxFaults <- 1, MaxTaps <- 2, MaxWait <- 2,
       engine <- v1, device <- v2, calls <- v3, answers <- v4, events <- v5,
       cal <- v6, rig <- v7, screen <- v8, saves <- v9, stored <- v10,
       blind <- v11, crossed <- v12, spent <- v13

-----------------------------------------------------------------------------
Rest19 == <<v19, v20, v21, v22, v23>>
Rest14 == <<v14, v15, v16, v17, v18, Rest19>>
Rest12 == <<v12, v13, Rest14>>
Rest11 == <<v11, Rest12>>
Rest9 == <<v9, v10, Rest11>>
Rest1 == <<v1, v2, v3, v4, v5, v6, v7, v8, Rest9>>

Free19 == v19 = 0 /\ v20 = 0 /\ v21 = 0 /\ v22 = 0 /\ v23 = 0
Free14 == v14 = 0 /\ v15 = 0 /\ v16 = 0 /\ v17 = 0 /\ v18 = 0 /\ Free19
Free12 == v12 = 0 /\ v13 = 0 /\ Free14
Free11 == v11 = 0 /\ Free12
Free9 == v9 = 0 /\ v10 = 0 /\ Free11
Free1 == v1 = 0 /\ v2 = 0 /\ v3 = 0 /\ v4 = 0 /\ v5 = 0 /\ v6 = 0 /\ v7 = 0
  /\ v8 = 0 /\ Free9

allVars == <<part, spscVars, readoutVars, rigVars, appVars, hostVars, cardVars, Rest1>>

\* One that does not run begins in a state of its own.
MCInit ==
  /\ RingInit /\ ReadoutInit /\ RigInit /\ AppInit /\ SheetsInit /\ CardInit
  /\ \/ part \in {"ring", "readout", "rig", "app", "sheets", "card"} /\ Free1
     \/ part = "settings" /\ Metronome!Init /\ Free11
     \/ part = "screen" /\ MetronomeTool!Init
     \/ part = "practice" /\ Practice!Init /\ Free19
     \/ part = "tuner" /\ Microphone!Init /\ Free12
     \/ part = "locks" /\ Locks!Init /\ Free12
     \/ part = "tunings" /\ TuningList!Init /\ Free9
     \/ part = "calibration" /\ Calibration!Init /\ Free14
     \/ part = "taps" /\ TapsMeasured!Init /\ Free14
  /\ part # "app" => os = "granted"
  /\ part # "card" => app.bpm = CHOOSE b \in Tempos : TRUE
  /\ part # "rig" => device = [id |-> CHOOSE r \in Routes : TRUE, certain |-> TRUE]

OnStage ==
  \/ part = "settings" /\ Metronome!Next /\ UNCHANGED Rest11
  \/ part = "screen" /\ MetronomeTool!Next
  \/ part = "practice" /\ Practice!Next /\ UNCHANGED Rest19
  \/ part = "tuner" /\ Microphone!Next /\ UNCHANGED Rest12
  \/ part = "locks" /\ Locks!Next /\ UNCHANGED Rest12
  \/ part = "tunings" /\ TuningList!Next /\ UNCHANGED Rest9
  \/ part = "calibration" /\ Calibration!Next /\ UNCHANGED Rest14
  \/ part = "taps" /\ TapsMeasured!Next /\ UNCHANGED Rest14

\* Those that run in their own variables.
UnderTheStage ==
  \/ /\ part = "ring" /\ RingNext
     /\ UNCHANGED <<readoutVars, rigVars, appVars, hostVars, cardVars>>
  \/ /\ part = "readout" /\ ReadoutNext
     /\ UNCHANGED <<spscVars, rigVars, appVars, hostVars, cardVars>>
  \/ /\ part = "rig" /\ RigNext
     /\ UNCHANGED <<spscVars, readoutVars, appVars, hostVars, cardVars>>
  \/ /\ part = "app" /\ AppNext
     /\ UNCHANGED <<spscVars, readoutVars, rigVars, hostVars, cardVars>>
  \/ /\ part = "sheets" /\ SheetsNext
     /\ UNCHANGED <<spscVars, readoutVars, rigVars, appVars, cardVars>>
  \/ /\ part = "card" /\ CardNext
     /\ UNCHANGED <<spscVars, readoutVars, rigVars, appVars, hostVars>>

MCNext ==
  /\ UNCHANGED part
  /\ \/ UnderTheStage /\ UNCHANGED Rest1
     \/ OnStage /\ UNCHANGED <<spscVars, readoutVars, rigVars, appVars, hostVars, cardVars>>

MCSpec == MCInit /\ [][MCNext]_allVars

-----------------------------------------------------------------------------
(* Each property is that of the part's module, which says what it is about;  *)
(* those of the parts that run in their own variables are the module's own.  *)

\* The engine plays the settings the metronome's store shows, a song just
\* loaded or saved is not marked unsaved, what is saved is storable, and the
\* count-in is kept (metronome store, presetMapping.ts, patternActions.ts).
SettingsAgree ==
  part = "settings" => /\ Metronome!EngineAgrees
                       /\ Metronome!LoadedIsClean
                       /\ Metronome!SongsStorable
                       /\ Metronome!CountInKept

\* TAP counts one series of taps, a swipe sets what the finger's travel since
\* it last turned says, and Back takes what lies on top (tool-metronome screen/).
TouchesAnswer ==
  part = "screen" => /\ MetronomeTool!TapsAreOneSeries
                     /\ MetronomeTool!SwipeAnswers
                     /\ MetronomeTool!BackTakesTop

\* Every moment the metronome runs is in one session, whoever starts and stops
\* it, and a summary is stored once, kept to ask about, or discarded by the
\* player (core-state practice/).
PracticeIsCounted ==
  part = "practice" => Practice!TimeIsCounted /\ Practice!SummariesKept

\* The microphone is open while the tuner's screen is in front and only then,
\* the engine tunes by what the screen shows, and a string is marked tuned only
\* by a lock of the tuning it belongs to; and the tuning in use is the row of
\* the table it was taken from, whatever is edited or deleted meanwhile
\* (core-state tuner/, tool-tuner).
TunerListens ==
  /\ part = "tuner" => /\ Microphone!MicFollowsScreen
                       /\ Microphone!EngineFollows
                       /\ Microphone!TunedTruly
  /\ part = "locks" => /\ Locks!MicFollowsScreen
                       /\ Locks!EngineFollows
                       /\ Locks!TunedTruly
  /\ part = "tunings" => TuningList!SelectionIsStored

\* A calibration sounds only its own click, its run is of one engine and one
\* output from first tap to last, and what it stores was measured on the output
\* it is stored for (calibrationSession.ts, api_rig_click.cpp's callers).
CalibrationIsMeasured ==
  /\ part = "calibration" => /\ Calibration!ClickIsOwned
                             /\ Calibration!RunIsWhole
                             /\ Calibration!StoredIsMeasured
  /\ part = "taps" => /\ TapsMeasured!ClickIsOwned
                      /\ TapsMeasured!RunIsWhole
                      /\ TapsMeasured!StoredIsMeasured
=============================================================================
