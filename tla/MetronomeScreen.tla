-------------------------- MODULE MetronomeScreen --------------------------
(***************************************************************************)
(* The metronome's screen (packages/tool-metronome/src/screen): the tempo  *)
(* set by a swipe, by TAP, by the nudge keys or by typing; the sheets and  *)
(* the first-use hint drawn over each other and the hardware Back between  *)
(* them; the bar that steps through a setlist.                             *)
(*                                                                         *)
(* A swipe runs on the UI thread and posts its steps to the JavaScript     *)
(* thread, where every other touch is handled: posted is what is on the    *)
(* way.  It starts from currentBpm, which the UI thread has from the last  *)
(* render or the last frame of the engine, and which steps on the way, a   *)
(* render to come and a ramp leave behind.  What the store does with a     *)
(* tempo is MetronomeSettings', what the library does with a song          *)
(* SongLibrary's and what becomes of a finished practice session           *)
(* PracticeSessions'; here they answer and no more.                        *)
(***************************************************************************)
EXTENDS Integers, Sequences, FiniteSets
LOCAL INSTANCE SequencesExt

CONSTANTS
  MinBpm, MaxBpm,   \* the tempo's bounds
  Minute,           \* clock ticks in a minute: a beat each tick is this tempo
  Window,           \* TAP_WINDOW_INTERVALS
  Fine, Reversal,   \* FINE_DP_PER_BPM and REVERSAL_DP
  FastGain,         \* what a flick multiplies its travel by
  Songs,            \* the setlist's songs, 1 .. n in order
  Tempos,           \* their stored tempos
  MaxOps            \* bound: touches and moves of the finger

VARIABLES
  bpm,       \* the store's tempo
  clock,     \* Date.now() at the last tap
  taps,      \* tapTimes
  swipe,     \* the gesture's shared value, with the finger's state
  posted,    \* steps scheduled on the JavaScript thread
  sheet,     \* openSheet
  barSheet,  \* the bar's own sheet: "none", "list" or "song"
  pending,   \* practice summaries that wait to be saved
  currentBpm, \* the tempo last drawn, a value the UI thread shares
  running,   \* whether the store's metronome runs
  practised, \* whether the pill has a session to end
  hintSeen, zone, scrollable,  \* the hint's flag and what layout measured
  loaded, staged, loading,     \* the song, whether in its set, the one asked for
  stored,    \* the songs' stored tempos
  ops,       \* touches and moves left to the run
  handlers,  \* the hardware Back handlers, newest last
  history,   \* ghost: the touches that set a tempo, in order
  turn,      \* ghost: the finger's travel since it last turned
  foreign    \* ghost: the swipe began behind the store or something else set
             \* the tempo, and it has made no step since

tempoVars == <<bpm, taps, history>>
swipeVars == <<swipe, posted, turn, foreign, currentBpm>>
playVars  == <<running, practised>>
drawnVars == <<sheet, barSheet, hintSeen, zone, scrollable, pending>>
songVars  == <<loaded, staged, loading, stored>>
vars == <<bpm, clock, taps, swipe, posted, sheet, barSheet, pending,
          currentBpm, running, practised, hintSeen, zone, scrollable, loaded,
          staged, loading, stored, ops, handlers, history, turn, foreign>>

-----------------------------------------------------------------------------
(* What is drawn.                                                          *)

summaryShown == sheet = "summary" /\ pending > 0

\* Mutant: the hint is drawn under a summary that opened with the screen.
showSwipeHintAnyway == ~hintSeen /\ zone
showSwipeHint == ~hintSeen /\ zone /\ ~summaryShown

HintShown == showSwipeHint

\* The sheets the screen has open: at most one of its own, and the bar's.
NumberEntrySheet     == {s \in {"numpad"} : sheet = s}
PickerSheets         == {s \in {"meter", "subdivision"} : sheet = s}
PracticeSheet        == {s \in {"practice"} : sheet = s}
PracticeSummarySheet == {s \in {"summary"} : summaryShown}
SheetsShown == NumberEntrySheet \cup PickerSheets \cup PracticeSheet
                 \cup PracticeSummarySheet \cup ({barSheet} \ {"none"})

SwipeHint == {h \in {"hint"} : HintShown}
Drawn == SheetsShown \cup SwipeHint

\* Back handlers follow what is drawn: one that goes away leaves the list,
\* one that appears is asked first.
Registered ==
  LET kept == SelectSeq(handlers, LAMBDA h : h \in Drawn')
  IN  handlers' = kept \o SetToSeq(Drawn' \ ToSet(kept))

\* The keys of a screen that is laid out take a touch unless something is
\* drawn over them.  Steps of a swipe that is over were posted before the
\* touch is, so the JavaScript thread has them first.
Uncovered == zone /\ Drawn = {} /\ ~swipe.on /\ posted = <<>>

-----------------------------------------------------------------------------
(* The song in the bar.                                                    *)

\* Asked for no more than by Save and Revert: that a running ramp's moves are
\* no edit is MetronomeSettings'.
unsaved == loaded # 0 /\ bpm # stored[loaded]

\* The one line of notes is there whenever a song is, so that coming and
\* going notes move nothing; it is loading and unloading that change layout.
useNoteStrip == loaded # 0

useSongContext == [song |-> loaded, set |-> staged]
StageBar == useSongContext.set
PlainBar == ~StageBar /\ useSongContext.song # 0

adjacentEntry(step) ==
  {s \in Songs : loaded # 0 /\ s = loaded + step}

\* A load is asked for; the database answers later.
LoadSong(s) ==
  /\ loading' = s
  /\ UNCHANGED <<loaded, staged, stored>>

StageBarSteps ==
  /\ StageBar /\ Uncovered
  /\ \E step \in {-1, 1} : \E s \in adjacentEntry(step) : LoadSong(s)
  /\ UNCHANGED <<tempoVars, swipeVars, drawnVars, clock, playVars>>

\* What the chip says: the song and where it stands in its set, or that it
\* stands in none; nothing when nothing is loaded.
songChipText ==
  IF StageBar \/ PlainBar
    THEN {[title |-> loaded, context |-> IF staged THEN loaded ELSE 0]} ELSE {}
SongChipFace == {[text |-> t, dot |-> unsaved] : t \in songChipText}

SongChip ==
  /\ Uncovered
  /\ \E face \in SongChipFace :
       barSheet' = IF face.text.context # 0 THEN "list" ELSE "song"
  /\ UNCHANGED <<tempoVars, swipeVars, songVars, clock, playVars,
                 sheet, hintSeen, zone, scrollable, pending>>

\* A row of the list dismisses it and loads; Leave takes the set off stage.
SongRow ==
  /\ barSheet = "list"
  /\ barSheet' = "none"
  /\ \/ \E s \in Songs : LoadSong(s)
     \/ staged' = FALSE /\ UNCHANGED <<loaded, loading, stored>>
  /\ UNCHANGED <<tempoVars, swipeVars, clock, playVars,
                 sheet, hintSeen, zone, scrollable, pending>>

\* Save and Revert, on the list's row of the loaded song and on the song's
\* own sheet: Save may fail, and then says so and leaves everything.
RowActions ==
  /\ barSheet # "none" /\ unsaved
  /\ \/ /\ bpm' = stored[loaded]
        /\ UNCHANGED stored
     \/ /\ stored' \in {stored, [stored EXCEPT ![loaded] = bpm]}
        /\ UNCHANGED bpm
  /\ UNCHANGED <<swipeVars, drawnVars, clock, playVars, taps, history,
                 loaded, staged, loading>>

\* The load is answered: its tempo is set whatever is drawn and whatever
\* the finger does.  A bar that changes kind takes its sheet with it.
Loaded ==
  /\ loading # 0
  /\ loaded' = loading /\ loading' = 0 /\ staged' = TRUE
  /\ bpm' = stored[loading]
  /\ barSheet' = IF staged THEN barSheet ELSE "none"
  /\ foreign' = swipe.on
  /\ UNCHANGED <<taps, history, swipe, posted, turn, currentBpm, stored,
                 clock, playVars, sheet, hintSeen, zone, scrollable, pending>>

-----------------------------------------------------------------------------
(* The tempo.                                                              *)

clampBpm(b) == IF b < MinBpm THEN MinBpm ELSE IF b > MaxBpm THEN MaxBpm ELSE b

\* What the store reads of the tempo: the engine's own while it runs, which
\* lags a command and which a ramp moves, so it may be any.
read == IF running THEN MinBpm .. MaxBpm ELSE {bpm}

tapTimeout == (Minute * 3) \div (2 * MinBpm)

pushTap(series, now) ==
  IF series = <<>> \/ now - Last(series) > tapTimeout
    THEN <<now>>
    ELSE LET all == Append(series, now)
         IN  SubSeq(all, IF Len(all) > Window + 1 THEN Len(all) - Window ELSE 1,
                    Len(all))

\* The tempos a series says: none while it spans no time.
tapTempoBpm(series) ==
  LET span  == Last(series) - Head(series)
      beats == Minute * (Len(series) - 1)
  IN  IF Len(series) < 2 \/ span <= 0 THEN {}
        ELSE {clampBpm((2 * beats + span) \div (2 * span))}

Touched(kind) == history' = Append(history, [kind |-> kind, at |-> clock'])

\* Time passes between taps, up to more than a series lasts.
handleTap ==
  /\ Uncovered
  /\ clock' \in clock .. clock + tapTimeout + 1
  /\ taps' = pushTap(taps, clock')
  /\ bpm' \in IF tapTempoBpm(taps') = {} THEN {bpm} ELSE tapTempoBpm(taps')
  /\ Touched("tap")
  /\ UNCHANGED <<swipeVars, drawnVars, songVars, playVars>>

\* Mutant: a tempo set another way leaves the series running.
EndingNoSeries(tempo) == bpm' = tempo /\ UNCHANGED <<taps, clock>> /\ Touched("other")
EndingTapSeries(tempo) ==
  /\ taps' = <<>>
  /\ bpm' = tempo
  /\ UNCHANGED clock
  /\ Touched("other")

TempoArrowKey == {-1, 1}
NudgeKey == {-2, 2}

\* The preset row's keys and the arrows of the tempo zone step from the
\* engine's tempo.
handleNudge ==
  /\ Uncovered
  /\ \E delta \in TempoArrowKey \cup NudgeKey, tempo \in read :
       EndingTapSeries(clampBpm(tempo + delta))
  /\ UNCHANGED <<swipeVars, drawnVars, songVars, playVars>>

\* The typed tempo is set and the sheet goes; an entry out of bounds is not.
EnterNumber ==
  /\ sheet = "numpad"
  /\ \/ \E typed \in {MinBpm, MaxBpm} :
          EndingTapSeries(typed) /\ hintSeen' = TRUE
     \/ UNCHANGED <<tempoVars, hintSeen, clock>>
  /\ sheet' = "none"
  /\ UNCHANGED <<swipeVars, songVars, playVars, barSheet,
                 zone, scrollable, pending>>

\* Stopping keeps the tempo that the engine had got to.
stop ==
  /\ running /\ running' = FALSE
  /\ bpm' \in read
  /\ UNCHANGED <<taps, history, practised>>

start ==
  /\ ~running /\ running' = TRUE
  /\ practised' = TRUE
  /\ UNCHANGED tempoVars

handleToggleTransport ==
  /\ Uncovered
  /\ stop \/ start
  /\ UNCHANGED <<swipeVars, drawnVars, songVars, clock>>

\* The notification's card stops it whatever the finger does.
Stopped ==
  /\ stop
  /\ foreign' = swipe.on
  /\ UNCHANGED <<swipe, posted, turn, currentBpm, drawnVars, songVars, clock>>

-----------------------------------------------------------------------------
(* The swipe.                                                              *)

sign(n) == IF n > 0 THEN 1 ELSE IF n < 0 THEN -1 ELSE 0
abs(n) == IF n < 0 THEN -n ELSE n
trunc(n, d) == sign(n) * (abs(n) \div d)

NoSwipe == [on |-> FALSE, bpm |-> MinBpm, residue |-> 0, backtrack |-> 0]
NoTurn == [dir |-> 0, dist |-> 0, from |-> MinBpm]

speedGain(fast) == IF fast THEN FastGain ELSE 1

\* Whether a move turns the swipe round, and the travel it then has to spend.
Backtracked(s, travelled) ==
  IF travelled * s.residue < 0 THEN s.backtrack + abs(travelled) ELSE 0
\* Mutant: travel the other way must first pay back what was not spent.
ResidueKept(s, travelled, fast) == s.residue + travelled * speedGain(fast)
Residue(s, travelled, fast) ==
  IF Backtracked(s, travelled) >= Reversal
    THEN sign(travelled) * Backtracked(s, travelled)
    ELSE s.residue + travelled * speedGain(fast)

swipeTempo(s, travelled, fast) ==
  LET residue == Residue(s, travelled, fast)
      raw     == s.bpm + trunc(residue, Fine)
      back    == Backtracked(s, travelled)
  IN  [on |-> TRUE, bpm |-> clampBpm(raw),
       residue   |-> IF raw = clampBpm(raw)
                       THEN residue - trunc(residue, Fine) * Fine ELSE 0,
       backtrack |-> IF back >= Reversal THEN 0 ELSE back]

\* currentBpm follows the store once a render has committed, and the engine on
\* every frame while the metronome runs.
useMetronomeFrame ==
  /\ currentBpm' \in read \ {currentBpm}
  /\ UNCHANGED <<tempoVars, drawnVars, songVars, clock, playVars, swipe,
                 posted, turn, foreign>>

\* The zone's swipe always answers; the rest of the screen's only when the
\* body does not scroll.  Under the hint's scrim it is the screen's.  It may
\* begin while the last one's steps are on the way, and begins from the tempo
\* drawn, whatever the store has by now.
startSwipe ==
  /\ zone /\ SheetsShown = {} /\ ~swipe.on
  /\ ~scrollable \/ ~HintShown
  /\ swipe' = [NoSwipe EXCEPT !.on = TRUE, !.bpm = clampBpm(currentBpm)]
  /\ turn' = [NoTurn EXCEPT !.from = swipe'.bpm]
  /\ foreign' = (posted # <<>> \/ swipe'.bpm # bpm)
  /\ UNCHANGED <<tempoVars, drawnVars, songVars, clock, playVars, posted,
                 currentBpm>>

Turned(travelled) ==
  IF sign(travelled) = turn.dir
    THEN [turn EXCEPT !.dist = @ + abs(travelled)]
    ELSE [dir |-> sign(travelled), dist |-> abs(travelled), from |-> swipe.bpm]

updateSwipe ==
  /\ swipe.on
  /\ \E travelled \in {-3, -1, 1, 3}, fast \in BOOLEAN :
       /\ fast => abs(travelled) = 3
       /\ swipe' = swipeTempo(swipe, travelled, fast)
       /\ turn' = Turned(travelled)
  /\ \/ swipe'.bpm = swipe.bpm /\ UNCHANGED <<posted, foreign>>
     \/ /\ swipe'.bpm # swipe.bpm
        /\ posted' = Append(posted, swipe'.bpm)
        /\ foreign' = FALSE
  /\ UNCHANGED <<tempoVars, drawnVars, songVars, clock, playVars, currentBpm>>

endSwipe ==
  /\ swipe.on
  /\ swipe' = NoSwipe
  /\ turn' = NoTurn /\ foreign' = FALSE
  /\ UNCHANGED <<tempoVars, drawnVars, songVars, clock, playVars, posted,
                 currentBpm>>

\* A posted step reaches the JavaScript thread.
handleStep ==
  /\ posted # <<>>
  /\ posted' = Tail(posted)
  /\ EndingTapSeries(Head(posted))
  /\ hintSeen' = TRUE
  /\ UNCHANGED <<songVars, playVars, swipe, turn, foreign, currentBpm,
                 sheet, barSheet, zone, scrollable, pending>>

-----------------------------------------------------------------------------
(* Sheets, hint and Back.                                                  *)

\* What opens a sheet: the zone's readout, the chips, the practice key.
SwipeTempoZone == {"numpad"}
PickerChips == {"meter", "subdivision"}

\* The numpad opens on the engine's tempo.
OpenSheet ==
  /\ Uncovered
  /\ \/ sheet' \in SwipeTempoZone /\ bpm' \in read
     \/ sheet' \in PickerChips \cup {"practice"} /\ UNCHANGED bpm
  /\ UNCHANGED <<taps, history, swipeVars, songVars, clock, playVars,
                 barSheet, hintSeen, zone, scrollable, pending>>

\* The pill ends the session and shows its summary, which a session too short
\* to keep has none of; while the metronome runs the next session begins.
handleEndPractice ==
  /\ Uncovered /\ practised /\ pending < 2
  /\ sheet' = "summary" /\ pending' \in {pending, pending + 1}
  /\ practised' = running
  /\ UNCHANGED <<tempoVars, swipeVars, songVars, clock, running,
                 barSheet, hintSeen, zone, scrollable>>

\* A tile sets its subdivision and closes, Cancel and the scrim only close:
\* what is picked is MetronomeSettings'.
NotationTile == sheet = "subdivision" /\ sheet' = "none"

CloseSheet ==
  /\ \/ NotationTile /\ UNCHANGED barSheet
     \/ /\ sheet \in {"numpad", "meter", "practice"}
        /\ sheet' = "none" /\ UNCHANGED barSheet
     \/ /\ barSheet # "none"
        /\ barSheet' = "none" /\ UNCHANGED sheet
  /\ UNCHANGED <<tempoVars, swipeVars, songVars, clock, playVars,
                 hintSeen, zone, scrollable, pending>>

\* The summary has no way out but Save and Discard: the one it shows goes,
\* the next one takes its place, and the last leaves openSheet behind.
SummaryGone ==
  /\ summaryShown
  /\ pending' = pending - 1
  /\ UNCHANGED <<tempoVars, swipeVars, songVars, clock, playVars,
                 sheet, barSheet, hintSeen, zone, scrollable>>

DismissHint ==
  /\ HintShown
  /\ hintSeen' = TRUE
  /\ UNCHANGED <<tempoVars, swipeVars, songVars, clock, playVars,
                 sheet, barSheet, zone, scrollable, pending>>

\* Hardware Back asks the newest handler; the summary's may fail to save.
onHardwareBack ==
  /\ handlers # <<>>
  /\ LET top == Last(handlers)
     IN  /\ hintSeen' = (hintSeen \/ top = "hint")
         /\ barSheet' = IF top = barSheet THEN "none" ELSE barSheet
         /\ sheet' = IF top = sheet /\ top # "summary" THEN "none" ELSE sheet
         /\ pending' \in IF top = "summary" THEN {pending - 1, pending}
                         ELSE {pending}
  /\ UNCHANGED <<tempoVars, swipeVars, songVars, clock, playVars,
                 zone, scrollable>>

\* Layout measures the zone, and again when the song's line comes or goes.
handleLayout ==
  /\ ~zone \/ scrollable # useNoteStrip
  /\ zone' = TRUE /\ scrollable' = useNoteStrip
  /\ UNCHANGED <<tempoVars, swipeVars, songVars, clock, playVars,
                 sheet, barSheet, hintSeen, pending>>

-----------------------------------------------------------------------------

\* The screen mounts over whatever the stores hold; a summary that waits
\* opens with it.  A metronome that runs has had its touch.
Init ==
  /\ bpm \in {MinBpm, MaxBpm} /\ clock = 0 /\ taps = <<>>
  /\ swipe = NoSwipe /\ posted = <<>>
  /\ pending \in 0 .. 1 /\ sheet = (IF pending > 0 THEN "summary" ELSE "none")
  /\ barSheet = "none" /\ running \in BOOLEAN /\ practised = running
  /\ currentBpm = bpm
  /\ hintSeen \in BOOLEAN /\ zone = FALSE /\ scrollable = FALSE
  /\ loaded \in {0, 1} /\ staged \in BOOLEAN /\ (staged => loaded # 0)
  /\ loading = 0 /\ stored = Tempos
  /\ handlers = SetToSeq(Drawn)
  /\ ops = (IF running THEN MaxOps - 1 ELSE MaxOps)
  /\ history = <<>> /\ turn = NoTurn /\ foreign = FALSE

MetronomeAppBar == StageBarSteps \/ SongRow \/ SongChip \/ RowActions
PresetRow == handleTap \/ handleNudge
Transport == handleToggleTransport \/ OpenSheet
useTempoSwipe == endSwipe \/ handleStep
Sheets == EnterNumber \/ CloseSheet \/ SummaryGone \/ handleEndPractice

Touch == \/ MetronomeAppBar \/ PresetRow \/ Transport \/ startSwipe
         \/ updateSwipe \/ Sheets \/ DismissHint \/ onHardwareBack

\* Once the touches are spent nothing reads what is drawn.
Next ==
  /\ \/ ops > 0 /\ ops' = ops - 1 /\ Touch
     \/ UNCHANGED ops /\ ops > 0 /\ useMetronomeFrame
     \/ UNCHANGED ops /\ (useTempoSwipe \/ Loaded \/ Stopped \/ handleLayout)
  /\ Registered

Spec == Init /\ [][Next]_vars

-----------------------------------------------------------------------------
(* Properties.                                                             *)

\* The taps that the newest tap continues: those at the end of the history
\* with no other touch and no pause between them.
Series ==
  LET n == Len(history)
      runs == {i \in 1 .. n :
                /\ \A j \in i .. n : history[j].kind = "tap"
                /\ \A j \in i .. n - 1 :
                     history[j + 1].at - history[j].at <= tapTimeout}
      kept == {i \in runs : i >= n - Window}
  IN  [k \in 1 .. Cardinality(kept) |-> history[n - Cardinality(kept) + k].at]

\* TAP averages over one series: taps never reach back over a pause longer
\* than the slowest tempo's beat and a half, nor over a tempo that was set
\* by a nudge, by typing or by a swipe (handleTap, tapTempo.ts).
TapsAreOneSeries == taps = Series

\* A swipe answers the finger: turned round, it moves the tempo the other
\* way within one step and the tremor allowance, unless it is at the bound;
\* and when its steps are through, the store has the tempo the finger shows
\* (swipeTempo.ts:47 "a reversal answers within one step but tremor does not").
\* From the swipe's first step on that holds until a song or a stop sets the
\* tempo; before it only if the tempo drawn at the start was the store's.  A
\* swipe begun behind its time, over steps on the way, a render to come or a
\* ramp, steps from the tempo that was drawn: the store's moves with it.
SwipeAnswers ==
  /\ swipe.on /\ turn.dist >= Fine + Reversal =>
       \/ turn.dir * (swipe.bpm - turn.from) >= 1
       \/ swipe.bpm = IF turn.dir > 0 THEN MaxBpm ELSE MinBpm
  /\ swipe.on /\ posted = <<>> /\ ~foreign => bpm = swipe.bpm

\* Hardware Back takes what is drawn on top: the hint, which the sheets are
\* drawn over, is never asked while a sheet is shown, and every sheet shown
\* has its handler (MetronomeScreen.tsx:171-173).
BackTakesTop ==
  /\ ToSet(handlers) = Drawn
  /\ HintShown => SheetsShown = {}
=============================================================================
