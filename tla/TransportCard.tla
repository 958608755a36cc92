----------------------------- MODULE TransportCard -----------------------------
(***************************************************************************)
(* The playback notification and the app that follows it.  The app's       *)
(* stores (the JavaScript thread) show and hide the metronome's card and   *)
(* the song's by starting PlaybackService with intents; the service (the   *)
(* main thread) routes them onto the one notification there is, drives the *)
(* engine when the card is pressed, and tells the app by events.  Android  *)
(* creates the service for a start, and destroys it some time after it     *)
(* asked to stop, unless a later start is already on its way.              *)
(*                                                                         *)
(* The tempo stands for everything the card tells of the metronome beside  *)
(* whether it plays: its meter and its setlist follow the same way.        *)
(***************************************************************************)
EXTENDS Naturals, Sequences

CONSTANTS Tempos,     \* tempos the metronome may have
          MaxNow,     \* bound: time
          MaxTaps     \* bound: what the player does, in the app and on the card

VARIABLES time,
          app,       \* the metronome store: running, tempo, ramp, practice clock
          eng,       \* the engine's metronome
          shown,     \* the card as the app believes it, or NoCard
          songShown, \* the song player shows its card
          main,      \* what waits for the main thread, in order
          events,    \* what waits for the JavaScript thread, in order
          svc,       \* the service
          startRequested,
          taps,
          bothActed, \* ghost: both sides acted before they had heard each other
          unsent     \* ghost: a hide was not sent though a show was on its way

cardVars == <<time, app, eng, shown, songShown, main, events, svc, startRequested,
             taps, bothActed, unsent>>

-----------------------------------------------------------------------------
(* Clocks, cards and states.                                               *)

None == 1000000
\* No time is the one that stands for none.
ASSUME CardAssumption == Tempos \subseteq Nat /\ MaxNow \in Nat /\ MaxNow < None

Stretch(clock, running) ==
  IF running = (clock.since # None) THEN clock
  ELSE IF running THEN [clock EXCEPT !.since = time]
  ELSE [played |-> clock.played + (time - clock.since), since |-> None]

NoCard == [playing |-> FALSE, bpm |-> 0]
cardOf(a, playing, since) ==
  [playing |-> playing, bpm |-> a.bpm, ramp |-> a.ramp,
   played |-> a.practice.played, since |-> since]

\* A running metronome has a card; a stopped one keeps the card of a pause that
\* was made on it.
shownFor(a, s) ==
  IF a.running THEN cardOf(a, TRUE, a.practice.since)
  ELSE IF s # NoCard /\ ~s.playing THEN cardOf(a, FALSE, s.since)
  ELSE NoCard

transportActive == app.running \/ shown # NoCard

\* The service as it is created.
Created == [alive |-> TRUE, stopping |-> FALSE, song |-> FALSE, metronome |-> FALSE,
            posted |-> "none", playback |-> "stopped", bpm |-> 0, ramp |-> FALSE,
            practice |-> [played |-> 0, since |-> None]]
Dead == [Created EXCEPT !.alive = FALSE]

-----------------------------------------------------------------------------
(* The app's side: what it sends.                                          *)

Message(kind, card) == [kind |-> kind, card |-> card]
IsShow(m) == m.kind \in {"show", "songShow"}

\* Mutant: a show is sent for a metronome that runs, and never for a paused one.
transportShowRunning(w, card) ==
  IF ~card.playing THEN [w EXCEPT !.shown = card]
  ELSE [w EXCEPT !.shown = card, !.main = Append(@, Message("show", card)),
                 !.requested = @ \/ ~svc.alive]

\* PlaybackService.show: nothing is started for a card that does not play.
transportShow(w, card) ==
  IF ~svc.alive /\ ~card.playing THEN [w EXCEPT !.shown = card]
  ELSE [w EXCEPT !.shown = card, !.main = Append(@, Message("show", card)),
                 !.requested = @ \/ ~svc.alive]

\* PlaybackService.hide and hideSong: sent to a live service, or behind a start.
Hide(w, kind) ==
  IF ~svc.alive /\ ~w.requested
  THEN [w EXCEPT !.unsent = @ \/ \E i \in DOMAIN w.main : IsShow(w.main[i])]
  ELSE [w EXCEPT !.main = Append(@, Message(kind, NoCard))]

transportHide(w) == Hide([w EXCEPT !.shown = NoCard], "hide")

World == [shown |-> shown, main |-> main, requested |-> startRequested, unsent |-> unsent]

\* syncFromApp, which every change of the store runs.
syncFromApp(w, a) ==
  LET next == shownFor(a, w.shown)
  IN  IF next = w.shown THEN w
      ELSE IF next = NoCard THEN transportHide(w) ELSE transportShow(w, next)

Send(w) ==
  /\ shown' = w.shown /\ main' = w.main /\ startRequested' = w.requested
  /\ unsent' = w.unsent

Tap == taps < MaxTaps /\ taps' = taps + 1
InApp ==
  /\ Tap
  /\ bothActed' = (bothActed \/ events # <<>>)
  /\ UNCHANGED <<time, events, svc>>

start ==
  /\ InApp /\ ~app.running
  /\ app' = [app EXCEPT !.running = TRUE, !.practice = Stretch(@, TRUE)]
  /\ eng' = [running |-> TRUE, bpm |-> app.bpm, ramp |-> app.ramp]
  /\ Send(syncFromApp(World, app'))
  /\ UNCHANGED songShown

\* The tempo is read back in a setState of its own, then the store stops.
synced == [app EXCEPT !.bpm = IF app.running THEN eng.bpm ELSE @]
stopped == [synced EXCEPT !.running = FALSE, !.practice = Stretch(@, FALSE)]

stop ==
  /\ InApp /\ app.running
  /\ app' = stopped
  /\ eng' = [eng EXCEPT !.running = FALSE]
  /\ Send(syncFromApp(syncFromApp(World, synced), stopped))
  /\ UNCHANGED songShown

\* metronomeTransport.release: another tool takes the engine, or the metronome
\* is switched off; a paused card goes as well.
releaseMetronome ==
  /\ InApp /\ transportActive
  /\ app' = stopped
  /\ eng' = [eng EXCEPT !.running = FALSE]
  /\ LET w == syncFromApp(syncFromApp(World, synced), stopped)
     IN  Send(IF w.shown = NoCard THEN w ELSE transportHide(w))
  /\ UNCHANGED songShown

setTempo(b) ==
  /\ InApp /\ b # app.bpm
  /\ app' = [app EXCEPT !.bpm = b, !.ramp = FALSE]
  /\ eng' = [eng EXCEPT !.bpm = b, !.ramp = FALSE]
  /\ Send(syncFromApp(World, app'))
  /\ UNCHANGED songShown

setRamp ==
  /\ InApp /\ ~app.ramp
  /\ app' = [app EXCEPT !.ramp = TRUE]
  /\ eng' = [eng EXCEPT !.ramp = TRUE]
  /\ Send(syncFromApp(World, app'))
  /\ UNCHANGED songShown

resetPractice ==
  /\ InApp /\ app.practice # [played |-> 0, since |-> None]
  /\ app' = [app EXCEPT !.practice =
               [played |-> 0, since |-> IF @.since = None THEN None ELSE time]]
  /\ Send(syncFromApp(World, app'))
  /\ UNCHANGED <<eng, songShown>>

\* The song player's card.
songTransportShow ==
  /\ InApp /\ ~songShown /\ songShown' = TRUE
  /\ Send([World EXCEPT !.main = Append(@, Message("songShow", NoCard)),
                        !.requested = @ \/ ~svc.alive])
  /\ UNCHANGED <<app, eng>>

songTransportHide ==
  /\ InApp /\ songShown /\ songShown' = FALSE
  /\ Send(Hide(World, "songHide"))
  /\ UNCHANGED <<app, eng>>

\* Mutant: an event of a stop leaves the card the app believes in.
shownAfterNativeKept(s, e) ==
  IF s = NoCard THEN NoCard
  ELSE [s EXCEPT !.playing = e.playback = "playing", !.played = e.practice.played,
                 !.since = e.practice.since]

shownAfterNativeChange(s, e) ==
  IF s = NoCard \/ e.playback = "stopped" THEN NoCard
  ELSE [s EXCEPT !.playing = e.playback = "playing",
                 !.played = e.practice.played, !.since = e.practice.since,
                 !.bpm = IF e.ramp THEN @ ELSE e.bpm, !.ramp = @ /\ e.ramp]

storePatchFor(a, e) ==
  LET running == e.playback = "playing"
  IN  [running |-> running, bpm |-> IF e.ramp THEN a.bpm ELSE e.bpm,
       ramp |-> a.ramp /\ e.ramp,
       practice |-> [played |-> e.practice.played,
                     since |-> IF running THEN e.practice.since ELSE None]]

\* An event reaches the app; the store's change is not sent back.
onTransport ==
  /\ events # <<>>
  /\ events' = Tail(events)
  /\ IF Head(events).kind = "song"
     THEN songShown' = FALSE /\ UNCHANGED <<app, shown>>
     ELSE /\ shown' = shownAfterNativeChange(shown, Head(events))
          /\ app' = storePatchFor(app, Head(events))
          /\ UNCHANGED songShown
  /\ UNCHANGED <<time, eng, main, svc, startRequested, taps, bothActed, unsent>>

-----------------------------------------------------------------------------
(* The service.                                                            *)

\* Mutant: a song that ends takes the notification with it.
songEndedBare(s) == [s EXCEPT !.song = FALSE, !.posted = "none"]

\* stopSelf(lastStartId): a later start keeps the service.
finish(s, later) == [s EXCEPT !.posted = "none", !.stopping = ~later]

withEngineTempo(s) == [s EXCEPT !.bpm = IF s.playback = "playing" THEN eng.bpm ELSE @]

heldCard(s, card) ==
  [s EXCEPT !.playback = IF card.playing THEN "playing" ELSE "paused",
            !.bpm = card.bpm, !.ramp = card.ramp,
            !.practice = [played |-> card.played,
                          since |-> IF card.playing THEN card.since ELSE None]]

songEnded(s) ==
  IF s.metronome THEN [withEngineTempo(s) EXCEPT !.song = FALSE, !.posted = "metronome"]
  ELSE [s EXCEPT !.song = FALSE]

\* CardRouting: the song's card covers the metronome's, which is held behind it.
routed(s, m, later) ==
  CASE m.kind = "show" ->
         [heldCard(s, m.card) EXCEPT !.metronome = TRUE,
                                 !.posted = IF s.song THEN @ ELSE "metronome"]
    [] m.kind = "hide" ->
         IF s.song THEN [s EXCEPT !.metronome = FALSE]
         ELSE finish([s EXCEPT !.metronome = FALSE], later)
    [] m.kind = "songShow" -> [s EXCEPT !.song = TRUE, !.posted = "song"]
    [] m.kind = "songHide" ->
         IF s.song
         THEN IF s.metronome THEN songEnded(s) ELSE finish(songEnded(s), later)
         ELSE IF s.metronome THEN s ELSE finish(s, later)

\* The main thread takes the next start; it creates the service when there is none.
onStartCommand ==
  /\ main # <<>> /\ ~svc.stopping
  /\ LET m == Head(main)
     IN  /\ main' = Tail(main)
         /\ svc' = routed(IF svc.alive THEN svc ELSE Created, m, Tail(main) # <<>>)
  /\ UNCHANGED <<time, app, eng, shown, songShown, events, startRequested, taps,
                 bothActed, unsent>>

\* Starts that come after stopSelf wait for another service.
onDestroy ==
  /\ svc.stopping
  /\ svc' = Dead /\ startRequested' = FALSE
  /\ UNCHANGED <<time, app, eng, shown, songShown, main, events, taps, bothActed, unsent>>

OnCard ==
  /\ Tap
  /\ bothActed' = (bothActed \/ main # <<>>)
  /\ UNCHANGED <<time, app, shown, songShown, main, startRequested, unsent>>

eventOf(s) ==
  [kind |-> "metronome", playback |-> s.playback, bpm |-> s.bpm, ramp |-> s.ramp,
   practice |-> s.practice]

\* handle: the state the commands lead to, and the app is told.
handled(s) ==
  LET t == [s EXCEPT !.practice = Stretch(@, s.playback = "playing")]
  IN  /\ events' = Append(events, eventOf(t))
      /\ svc' = IF t.playback = "stopped"
                THEN finish([t EXCEPT !.metronome = FALSE], main # <<>>) ELSE t

\* Play, Pause and Stop on the metronome's card.
MetronomeControl(next) ==
  /\ OnCard /\ svc.posted = "metronome" /\ next # svc.playback
  /\ handled([withEngineTempo(svc) EXCEPT !.playback = next])
  /\ eng' = [eng EXCEPT !.running = next = "playing"]

\* Its tempo keys, which end a ramp.
stepTempo(b) ==
  /\ OnCard /\ svc.posted = "metronome"
  /\ b # withEngineTempo(svc).bpm \/ svc.ramp
  /\ handled([svc EXCEPT !.bpm = b, !.ramp = FALSE])
  /\ eng' = [eng EXCEPT !.bpm = b, !.ramp = FALSE]

\* Stop on the song's card: the song player is told.
songStopped ==
  /\ OnCard /\ svc.posted = "song"
  /\ events' = Append(events, [kind |-> "song"])
  /\ svc' = IF svc.metronome THEN songEnded(svc) ELSE finish(songEnded(svc), main # <<>>)
  /\ UNCHANGED eng

\* The app is swiped away: what plays is stopped and the stores still hear it.
onTaskRemoved ==
  /\ OnCard /\ svc.alive /\ ~svc.stopping
  /\ LET s == [withEngineTempo(svc) EXCEPT !.playback = "stopped",
                                           !.practice = Stretch(@, FALSE)]
     IN  /\ events' = events \o (IF svc.song THEN <<[kind |-> "song"]>> ELSE <<>>)
                             \o (IF svc.metronome THEN <<eventOf(s)>> ELSE <<>>)
         /\ svc' = finish([(IF svc.metronome THEN s ELSE svc)
                             EXCEPT !.song = FALSE, !.metronome = FALSE], main # <<>>)
  /\ eng' = [eng EXCEPT !.running = FALSE]

RampMoves(b) ==
  /\ Tap /\ eng.ramp /\ eng.running /\ b # eng.bpm
  /\ eng' = [eng EXCEPT !.bpm = b]
  /\ UNCHANGED <<time, app, shown, songShown, main, events, svc, startRequested,
                 bothActed, unsent>>

Tick ==
  /\ time < MaxNow /\ time' = time + 1
  /\ UNCHANGED <<app, eng, shown, songShown, main, events, svc, startRequested, taps,
                 bothActed, unsent>>

-----------------------------------------------------------------------------
CardInit ==
  /\ time = 0
  /\ \E b \in Tempos :
       /\ app = [running |-> FALSE, bpm |-> b, ramp |-> FALSE,
                 practice |-> [played |-> 0, since |-> None]]
       /\ eng = [running |-> FALSE, bpm |-> b, ramp |-> FALSE]
  /\ shown = NoCard /\ songShown = FALSE
  /\ main = <<>> /\ events = <<>> /\ svc = Dead /\ startRequested = FALSE
  /\ taps = 0 /\ bothActed = FALSE /\ unsent = FALSE

CardNext ==
  \/ start \/ stop \/ releaseMetronome \/ setRamp \/ resetPractice
  \/ songTransportShow \/ songTransportHide \/ onTransport
  \/ onStartCommand \/ onDestroy \/ songStopped \/ onTaskRemoved \/ Tick
  \/ \E b \in Tempos : setTempo(b) \/ stepTempo(b) \/ RampMoves(b)
  \/ \E next \in {"playing", "paused", "stopped"} : MetronomeControl(next)

CardSpec == CardInit /\ [][CardNext]_cardVars

-----------------------------------------------------------------------------
(* Properties.                                                             *)

Settled == main = <<>> /\ events = <<>>

\* Once both threads have heard everything, and unless the player acted on one
\* side before it had heard of the other: the engine clicks exactly when the
\* store says so, the notification is the one of the song when there is one and
\* else the metronome's, it is there exactly when the app believes so, and it
\* agrees with the store on play or pause, on the tempo outside a ramp, on the
\* ramp and on the time practised.
CardTells ==
  Settled /\ ~bothActed /\ ~unsent =>
    /\ eng.running = app.running
    /\ svc.song = songShown
    /\ svc.metronome = (shown # NoCard)
    /\ svc.posted = IF songShown THEN "song" ELSE IF shown # NoCard THEN "metronome" ELSE "none"
    /\ app.running => shown # NoCard
    /\ shown # NoCard =>
         /\ (svc.playback = "playing") = app.running
         /\ svc.ramp = app.ramp /\ (~app.ramp => svc.bpm = app.bpm)
         /\ svc.practice = app.practice

\* PlaybackService.kt:393: a hide "queues behind that show, so no card is left
\* stuck": once both threads have heard everything, a metronome card that is
\* posted is one the app knows of.
NoCardStuck ==
  Settled /\ ~bothActed => (svc.posted = "metronome" => shown # NoCard)
=============================================================================
