--------------------------- MODULE PracticeSessions ---------------------------
(***************************************************************************)
(* Practice sessions: what the metronome's running time becomes.  The      *)
(* metronome store keeps the practice clock of the pill, the session store *)
(* listens to it and to the loaded song, the metronome screen ends, saves  *)
(* and discards sessions, and the database keeps the saved ones.           *)
(*                                                                         *)
(* The song notification changes the metronome's running state from the    *)
(* outside, with a clock of its own.  One unit of time is half a second;   *)
(* a ramp moves the engine's tempo without a word to the store.            *)
(***************************************************************************)
EXTENDS Naturals, Sequences, FiniteSets, SequencesExt

CONSTANTS Contexts,     \* what may be loaded: records of a set and a song
          Tempos,       \* tempos the metronome may have
          MaxNow,       \* bound: time
          MaxTaps,      \* bound: things the player and the notification do
          MaxFaults     \* bound: inserts the database refuses

NoSong == "no song"
NoSet == "no set"
MIN_SAVED_PLAYED == 2        \* MIN_SAVED_PLAYED_MS
None == 1000000              \* the null of a time

VARIABLES now,
          metronome,  \* the metronome store: running, its tempo, its clock
          engineBpm,
          context,    \* the library's loaded set and song
          session,    \* the practice session there is, or NoSession
          pending,    \* summaries to save or discard, newest first
          saving,     \* uuids whose insert is under way
          discardedWhileSaving,
          rows,       \* the database's practice sessions
          screen,     \* the metronome screen: shown, its sheet, its attempt
          card,       \* the notification: none, playing or paused
          event,      \* a change made from it, on its way
          uuids, taps, faults,
          ran,        \* ghost: time the metronome ran
          ended,      \* ghost: every summary there was, also the short ones
          dropped     \* ghost: uuids the player discarded

vars == <<now, metronome, engineBpm, context, session, pending, saving,
          discardedWhileSaving, rows, screen, card, event, uuids, taps, faults, ran,
          ended, dropped>>
stored == <<pending, saving, discardedWhileSaving, rows, dropped>>

-----------------------------------------------------------------------------
(* The practice clock.                                                     *)

IDLE_PRACTICE == [played |-> 0, since |-> None]

practiceElapsed(clock) ==
  clock.played + IF clock.since = None THEN 0 ELSE now - clock.since

practiceAfterRunning(clock, running) ==
  IF running = (clock.since # None) THEN clock
  ELSE IF running THEN [clock EXCEPT !.since = now]
  ELSE [played |-> practiceElapsed(clock), since |-> None]

resetPracticeClock(clock) ==
  [played |-> 0, since |-> IF clock.since = None THEN None ELSE now]

-----------------------------------------------------------------------------
(* A session: the clock, the stretches, the songs and the weighed tempo.   *)

NoSession == [uuid |-> 0]

isPlaying(s) == s.clock.since # None

\* Mutant: the tempo that begins is weighed, and not the one that ends.
sampledAhead(tempo, bpm) ==
  IF tempo.at = None THEN [tempo EXCEPT !.bpm = bpm, !.at = now]
  ELSE [bpmTime |-> tempo.bpmTime + bpm * (now - tempo.at), time |-> tempo.time,
        bpm |-> bpm, at |-> now]

sampled(tempo, bpm) ==
  IF tempo.at = None THEN [tempo EXCEPT !.bpm = bpm, !.at = now]
  ELSE [bpmTime |-> tempo.bpmTime + tempo.bpm * (now - tempo.at),
        time |-> tempo.time + (now - tempo.at), bpm |-> bpm, at |-> now]

longer(longest, stretch) ==
  IF longest.time >= stretch.time THEN longest ELSE stretch

withStretchClosed(s) ==
  [s EXCEPT !.longest = longer(@, [time |-> now - s.from, song |-> s.context.song])]

withContextPlayed(s) ==
  [s EXCEPT !.set = IF @ = NoSet THEN s.context.set ELSE @,
            !.songs = IF s.context.song = NoSong \/ s.context.song \in ToSet(@)
                      THEN @ ELSE Append(@, s.context.song)]

startPracticeSession(uuid, bpm, loaded) ==
  withContextPlayed(
    [uuid |-> uuid, clock |-> [played |-> 0, since |-> now], from |-> now,
     context |-> loaded, set |-> NoSet, songs |-> <<>>,
     longest |-> [time |-> 0, song |-> NoSong],
     tempo |-> [bpmTime |-> 0, time |-> 0, bpm |-> bpm, at |-> now]])

practiceSessionAfterRunning(s, running, bpm) ==
  IF running = isPlaying(s) THEN s
  ELSE IF running
  THEN withContextPlayed(
         [s EXCEPT !.clock = practiceAfterRunning(@, TRUE), !.from = now,
                   !.tempo = [@ EXCEPT !.bpm = bpm, !.at = now]])
  ELSE [withStretchClosed(s) EXCEPT
          !.clock = practiceAfterRunning(@, FALSE),
          !.tempo = [sampled(@, bpm) EXCEPT !.at = None]]

practiceSessionAfterTempo(s, bpm) ==
  IF isPlaying(s) THEN [s EXCEPT !.tempo = sampled(@, bpm)] ELSE s

practiceSessionAfterContext(s, loaded) ==
  IF ~isPlaying(s) THEN [s EXCEPT !.context = loaded]
  ELSE IF s.context.song = loaded.song
  THEN withContextPlayed([s EXCEPT !.context = loaded])
  ELSE withContextPlayed(
         [withStretchClosed(s) EXCEPT !.context = loaded, !.from = now])

\* The summary; its average is bpmTime / time.
endPracticeSession(s, bpm) ==
  LET e == practiceSessionAfterRunning(s, FALSE, bpm)
  IN  [uuid |-> e.uuid, played |-> practiceElapsed(e.clock), set |-> e.set,
       songs |-> e.songs, longest |-> e.longest,
       bpmTime |-> e.tempo.bpmTime, time |-> e.tempo.time]

-----------------------------------------------------------------------------
(* The metronome store, and the session store's two subscriptions to it.   *)

readTempo == IF metronome.running THEN engineBpm ELSE metronome.bpm

update(s, next) == IF s = NoSession THEN s ELSE next

\* The store's state becomes m, in one setState, and its listeners hear it:
\* the practice clock first, then the session.
SetState(s, m) ==
  IF m.running # metronome.running
  THEN IF ~m.running THEN update(s, practiceSessionAfterRunning(s, FALSE, m.bpm))
       ELSE IF s = NoSession THEN startPracticeSession(uuids + 1, m.bpm, context)
       ELSE practiceSessionAfterRunning(s, TRUE, m.bpm)
  ELSE IF m.bpm # metronome.bpm THEN update(s, practiceSessionAfterTempo(s, m.bpm))
  ELSE s

Clocked(m) == [m EXCEPT !.practice = practiceAfterRunning(@, m.running)]

Became(m, s) ==
  /\ metronome' = Clocked(m) /\ session' = s
  /\ uuids' = IF s # NoSession /\ s.uuid > uuids THEN s.uuid ELSE uuids

Tap == taps < MaxTaps /\ taps' = taps + 1

Start ==
  /\ Tap /\ screen.shown /\ ~metronome.running
  /\ LET m == [metronome EXCEPT !.running = TRUE] IN Became(m, SetState(session, m))
  /\ engineBpm' = metronome.bpm /\ card' = "playing"
  /\ UNCHANGED <<now, context, screen, event, faults, ran, ended>> /\ UNCHANGED stored

\* stop and pause: the tempo is read back first, in a setState of its own.
Stop ==
  /\ Tap /\ metronome.running
  /\ LET synced == [metronome EXCEPT !.bpm = engineBpm]
         s == IF synced = metronome THEN session
              ELSE update(session, practiceSessionAfterTempo(session, engineBpm))
         m == [synced EXCEPT !.running = FALSE]
     IN  Became(m, update(s, practiceSessionAfterRunning(s, FALSE, m.bpm)))
  /\ card' = "none"
  /\ UNCHANGED <<now, engineBpm, context, screen, event, faults, ran, ended>>
  /\ UNCHANGED stored

setTempo(b) ==
  /\ Tap /\ screen.shown /\ b # metronome.bpm
  /\ engineBpm' = b
  /\ LET m == [metronome EXCEPT !.bpm = b] IN Became(m, SetState(session, m))
  /\ UNCHANGED <<now, context, screen, card, event, faults, ran, ended>> /\ UNCHANGED stored

\* A running ramp moves the engine's tempo; the sampler reads it every second.
RampMoves(b) ==
  /\ Tap /\ metronome.running /\ b # engineBpm /\ engineBpm' = b
  /\ UNCHANGED <<now, metronome, context, session, screen, card, event, uuids, faults, ran, ended>>
  /\ UNCHANGED stored

sampleTempo ==
  /\ metronome.running /\ session # NoSession /\ session.tempo.at + 2 <= now
  /\ session' = practiceSessionAfterTempo(session, readTempo)
  /\ UNCHANGED <<now, metronome, engineBpm, context, screen, card, event, uuids, taps, faults, ran, ended>>
  /\ UNCHANGED stored

\* Another song or set is loaded, or none.
contextOf(loaded) ==
  /\ Tap /\ loaded # context
  /\ context' = loaded
  /\ session' = update(session, practiceSessionAfterContext(session, loaded))
  /\ UNCHANGED <<now, metronome, engineBpm, screen, card, event, uuids, faults, ran, ended>>
  /\ UNCHANGED stored

NoEvent == [some |-> FALSE]

\* A press on the notification: the service changes the engine at once and
\* tells the store later.  Its clock is the one the app last gave it.
NativePress(next) ==
  /\ Tap /\ event = NoEvent /\ card # "none" /\ next # card
  /\ card' = next
  /\ event' = [some |-> TRUE, running |-> next = "playing", bpm |-> engineBpm,
               practice |-> practiceAfterRunning(metronome.practice, next = "playing")]
  /\ UNCHANGED <<now, metronome, engineBpm, context, session, screen, uuids, faults, ran, ended>>
  /\ UNCHANGED stored

\* storePatchFor: one setState of running, tempo and clock.
NativeChange ==
  /\ event # NoEvent /\ event' = NoEvent
  /\ LET m == [metronome EXCEPT !.running = event.running, !.bpm = event.bpm,
                 !.practice = [event.practice EXCEPT
                                 !.since = IF event.running THEN @ ELSE None]]
     IN  Became(m, SetState(session, m))
  /\ UNCHANGED <<now, engineBpm, context, screen, card, taps, faults, ran, ended>>
  /\ UNCHANGED stored

Tick ==
  /\ now < MaxNow /\ now' = now + 1
  /\ ran' = IF metronome.running THEN ran + 1 ELSE ran
  /\ UNCHANGED <<metronome, engineBpm, context, session, screen, card, event, uuids,
                 taps, faults, ended>> /\ UNCHANGED stored

-----------------------------------------------------------------------------
(* Ending, saving and discarding.                                          *)

NoAttempt == [uuid |-> 0, state |-> "idle"]
hasPracticeToEnd == practiceElapsed(metronome.practice) >= MIN_SAVED_PLAYED

\* endSession, when there is a session; a running metronome begins the next.
endSession(m) ==
  IF session = NoSession
  THEN UNCHANGED <<pending, ended>> /\ Became(m, session)
  ELSE LET e == endPracticeSession(session, readTempo)
       IN  /\ pending' = IF e.played >= MIN_SAVED_PLAYED THEN <<e>> \o pending ELSE pending
           /\ ended' = ended \cup {e}
           /\ Became(m, IF metronome.running
                        THEN startPracticeSession(uuids + 1, readTempo, session.context)
                        ELSE NoSession)

\* endPractice: the session ends, then the pill's clock starts over.
endPractice == endSession([metronome EXCEPT !.practice = resetPracticeClock(@)])

\* The pill's End, once there is a second to end; the summary sheet opens.
PracticePill ==
  /\ Tap /\ screen.shown /\ screen.sheet = "none" /\ hasPracticeToEnd
  /\ endPractice
  /\ screen' = [screen EXCEPT !.sheet = "summary", !.attempt = NoAttempt]
  /\ UNCHANGED <<now, engineBpm, context, card, event, saving, discardedWhileSaving, rows,
                 faults, ran, dropped>>

\* Leaving the screen ends the practice of a metronome that is not running.
leavePractice ==
  /\ Tap /\ screen.shown
  /\ screen' = [shown |-> FALSE, sheet |-> "none", attempt |-> NoAttempt]
  /\ IF metronome.running
     THEN UNCHANGED <<pending, ended, metronome, session, uuids>>
     ELSE endPractice
  /\ UNCHANGED <<now, engineBpm, context, card, event, saving, discardedWhileSaving, rows,
                 faults, ran, dropped>>

summarySheetOnMount == IF pending = <<>> THEN "none" ELSE "summary"

MetronomeScreen ==
  /\ Tap /\ ~screen.shown
  /\ screen' = [shown |-> TRUE, sheet |-> summarySheetOnMount, attempt |-> NoAttempt]
  /\ UNCHANGED <<now, metronome, engineBpm, context, session, card, event, uuids, faults, ran, ended>>
  /\ UNCHANGED stored

\* The sheet shows the newest summary; its buttons wait for an answer.
SheetShown == screen.shown /\ screen.sheet = "summary" /\ pending # <<>>
SaveStateOf == IF screen.attempt.uuid = pending[1].uuid THEN screen.attempt.state ELSE "idle"
summaryButtons == [save |-> SaveStateOf # "saving", discard |-> SaveStateOf # "saving"]

\* Save session, and every other way out of the sheet but Discard: a save of
\* the same session that is under way is the one waited for.
saveSession ==
  /\ Tap /\ SheetShown
  /\ \/ summaryButtons.save
     \/ TRUE                       \* Back, a drag, a tap outside
  /\ saving' = saving \cup {pending[1].uuid}
  /\ screen' = [screen EXCEPT !.attempt = [uuid |-> pending[1].uuid, state |-> "saving"]]
  /\ UNCHANGED <<now, metronome, engineBpm, context, session, pending,
                 discardedWhileSaving, rows, card, event, uuids, faults, ran, ended, dropped>>

\* Mutant: a failed save drops what it was to keep.
dequeueAnyway(uuid, refused) == SelectSeq(pending, LAMBDA p : p.uuid # uuid)

\* The insert answers: what is stored leaves the queue, and what was refused
\* only when it had been discarded meanwhile.
dequeue(uuid, refused) ==
  IF refused /\ uuid \notin discardedWhileSaving THEN pending
  ELSE SelectSeq(pending, LAMBDA p : p.uuid # uuid)

\* The repository's insert, which does nothing for a uuid it has.
insert(uuid) ==
  rows \cup {SelectSeq(pending, LAMBDA p : p.uuid = uuid)[1]}

SaveAnswered(uuid, refused) ==
  /\ uuid \in saving
  /\ refused => faults < MaxFaults
  /\ faults' = IF refused THEN faults + 1 ELSE faults
  /\ rows' = IF refused THEN rows ELSE insert(uuid)
  /\ pending' = dequeue(uuid, refused)
  /\ saving' = saving \ {uuid}
  /\ discardedWhileSaving' = discardedWhileSaving \ {uuid}
  /\ screen' = [screen EXCEPT !.attempt =
                  IF ~screen.shown THEN NoAttempt
                  ELSE IF refused /\ uuid \notin discardedWhileSaving
                  THEN IF @ = NoAttempt THEN @ ELSE [uuid |-> uuid, state |-> "failed"]
                  ELSE NoAttempt]
  /\ UNCHANGED <<now, metronome, engineBpm, context, session, card, event, uuids, taps,
                 ran, ended, dropped>>

discardSession ==
  /\ Tap /\ SheetShown /\ summaryButtons.discard
  /\ LET uuid == pending[1].uuid
     IN  /\ dropped' = dropped \cup {uuid}
         /\ IF uuid \in saving
            THEN /\ discardedWhileSaving' = discardedWhileSaving \cup {uuid}
                 /\ UNCHANGED pending
            ELSE /\ pending' = Tail(pending) /\ UNCHANGED discardedWhileSaving
  /\ UNCHANGED <<now, metronome, engineBpm, context, session, saving, rows, screen,
                 card, event, uuids, faults, ran, ended>>

-----------------------------------------------------------------------------
Init ==
  /\ now = 0 /\ engineBpm \in Tempos /\ context \in Contexts
  /\ metronome = [running |-> FALSE, bpm |-> engineBpm, practice |-> IDLE_PRACTICE]
  /\ session = NoSession /\ pending = <<>> /\ saving = {}
  /\ discardedWhileSaving = {} /\ rows = {} /\ dropped = {} /\ ended = {}
  /\ screen = [shown |-> TRUE, sheet |-> "none", attempt |-> NoAttempt]
  /\ card = "none" /\ event = NoEvent /\ uuids = 0 /\ taps = 0 /\ faults = 0 /\ ran = 0

Next ==
  \/ Start \/ Stop \/ sampleTempo \/ NativeChange \/ Tick
  \/ PracticePill \/ leavePractice \/ MetronomeScreen \/ saveSession \/ discardSession
  \/ \E b \in Tempos : setTempo(b) \/ RampMoves(b)
  \/ \E loaded \in Contexts : contextOf(loaded)
  \/ \E next \in {"playing", "paused", "none"} : NativePress(next)
  \/ \E uuid \in saving, refused \in BOOLEAN : SaveAnswered(uuid, refused)

Spec == Init /\ [][Next]_vars

-----------------------------------------------------------------------------
(* Properties.                                                             *)

Total(summaries) == MapThenSumSet(LAMBDA e : e.played, summaries)

SongsOnce(songs) == \A i, j \in DOMAIN songs : i # j => songs[i] # songs[j]

\* Every half second the metronome ran is in exactly one session, the ones that
\* ended or the one that goes on, whatever started or stopped it; a session
\* weighs its tempo over exactly the time it counts, finds no stretch longer
\* than that, and lists each song once.
TimeIsCounted ==
  /\ metronome.running => session # NoSession
  /\ session # NoSession =>
       /\ isPlaying(session) = metronome.running
       /\ session.tempo.time + (IF session.tempo.at = None THEN 0 ELSE now - session.tempo.at)
            = practiceElapsed(session.clock)
       /\ session.longest.time <= practiceElapsed(session.clock)
       /\ SongsOnce(session.songs)
  /\ Total(ended) + (IF session = NoSession THEN 0 ELSE practiceElapsed(session.clock)) = ran

\* A summary of a second or more waits to be saved or discarded until the
\* database has it or the player dropped it: no refused insert, no session that
\* ends while another is being saved and no way out of the screen loses it,
\* and none is stored that was too short or discarded before its save began.
SummariesKept ==
  /\ \A e \in ended : e.played >= MIN_SAVED_PLAYED =>
       e \in rows \cup ToSet(pending) \/ e.uuid \in dropped
  /\ rows \subseteq ended
  /\ \A e \in rows : e.played >= MIN_SAVED_PLAYED
  /\ \A i \in DOMAIN pending : pending[i] \in ended
  /\ \A uuid \in saving : \E i \in DOMAIN pending : pending[i].uuid = uuid
=============================================================================
