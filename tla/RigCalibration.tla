--------------------------- MODULE RigCalibration ---------------------------
(***************************************************************************)
(* The latency calibration and the rig click: calibrationSession.ts,       *)
(* calibrationStats.ts and rigClick.ts, with the two screens that own one  *)
(* each (CalibrationScreen.tsx, RigSection.tsx) and the one click in the   *)
(* engine they share.                                                      *)
(*                                                                         *)
(* Calls run on one native thread in the order they are made and are       *)
(* answered in that order; route events come by themselves.  A tap is its  *)
(* deviation, a small number; a clock pair can always be read, and an      *)
(* engine that restarts always jumps.  The z-score and the unwrapping of a *)
(* deviation are left out.  Bounds: MaxMoves, MaxTurns, MaxFaults, MaxTaps *)
(* and MaxWait.                                                            *)
(***************************************************************************)
EXTENDS Integers, Sequences, FiniteSets
LOCAL INSTANCE SequencesExt

CONSTANTS Routes, Deviations,
          Taps, MinUsable, Window, Limit,  \* CALIBRATION and the offset's bound
          MaxMoves,   \* screens entered or left, presses
          MaxTurns,   \* changes of route, metronome and engine
          MaxFaults,  \* calls that fail
          MaxTaps, MaxWait

VARIABLES
  engine,   \* click, metronome, run and rate
  device,   \* real route, reported route, certain
  calls, answers, events,
  cal,      \* the calibration session
  rig,      \* the rig click of the settings screen
  screen,   \* shown, active, running as the app's store has it
  saves,    \* calibrations being stored
  stored,   \* history: what was stored, with the routes of its taps
  blind,    \* history: the output changed while it was only guessed, or
            \* before it was watched
  crossed,  \* history: a late start stopped somebody else's click
  spent

vars == <<engine, device, calls, answers, events, cal, rig, screen, saves,
          stored, blind, crossed, spent>>

Nobody == [id |-> "none", certain |-> FALSE]
Reported == [id |-> device.reported, certain |-> device.certain]
Spend(kind) == spent' = [spent EXCEPT ![kind] = @ + 1]
MaySpend(kind, n) == spent[kind] < n
Post(cs) == Len(calls) + Len(cs) <= MaxWait /\ calls' = calls \o cs

---------------------------------------------------------------------------
(* What a run of taps says.                                                *)

Sum(s) == FoldSeq(LAMBDA x, y : x + y, 0, s)
AbsOf(x) == IF x < 0 THEN -x ELSE x
mean(s) == IF s = <<>> THEN 0 ELSE Sum(s) \div Len(s)

Deviation(tap) == tap.at
DeviationsOf(taps) == [i \in DOMAIN taps |-> Deviation(taps[i])]

median(s) ==
  IF s = <<>> THEN 0
  ELSE CHOOSE x \in {s[i] : i \in DOMAIN s} :
         /\ 2 * Cardinality({i \in DOMAIN s : s[i] < x}) <= Len(s)
         /\ 2 * Cardinality({i \in DOMAIN s : s[i] > x}) <= Len(s)

usableDeviations(s) ==
  LET Near(x) == AbsOf(x - median(s)) <= Window IN SelectSeq(s, Near)

atLimit(m) == m > Limit \/ m < -Limit

analyseTaps(taps) ==
  LET usable == usableDeviations(DeviationsOf(taps)) IN
    IF Len(usable) < MinUsable THEN [kind |-> "too-few", mean |-> 0]
    ELSE IF atLimit(mean(usable)) THEN [kind |-> "at-limit", mean |-> 0]
    ELSE [kind |-> "measured", mean |-> mean(usable)]

---------------------------------------------------------------------------
(* The session.                                                            *)

IDLE == [phase |-> "idle", route |-> Nobody, taps |-> <<>>, notice |-> "none"]

State(c) == [phase |-> c.phase, route |-> c.route, taps |-> c.taps,
             notice |-> c.notice]

canUseOutcome(c) ==
  /\ c.phase \in {"running", "done"}
  /\ c.route.certain
  /\ analyseTaps(c.taps).kind = "measured"

engineRestarted(last, pair) == last # 0 /\ last # pair

restartRun(c, notice) ==
  [c EXCEPT !.phase = "running", !.taps = <<>>, !.notice = notice,
            !.lastPair = 0]

stop(c) ==
  [c EXCEPT !.gen = @ + 1, !.watching = "no", !.schedule = FALSE,
            !.lastPair = 0]

With(c, s) == [c EXCEPT !.phase = s.phase, !.route = s.route,
                        !.taps = s.taps, !.notice = s.notice]

Opened(c) ==
  LET n == stop(c) IN
    [With(n, [IDLE EXCEPT !.phase = "starting"]) EXCEPT !.open = n.gen]

Closed(c) == [With(stop(c), IDLE) EXCEPT !.open = -1]

Ask(call, c) == [call |-> call, of |-> "cal", gen |-> c.gen, taps |-> c.taps]
StartCall(of, gen) ==
  [call |-> "start", of |-> of, gen |-> gen, taps |-> <<>>]
StopCall == [call |-> "stop", of |-> "none", gen |-> 0, taps |-> <<>>]

\* Mutant: an output that changes does not end the run.
onRouteKept(c, route) ==
  IF c.phase \notin {"running", "done"} THEN c ELSE [c EXCEPT !.route = route]

onRoute(c, route) ==
  IF c.phase \notin {"running", "done"} THEN c
  ELSE IF c.route.certain /\ c.route.id # route.id
       THEN restartRun([c EXCEPT !.route = route], "route-changed")
       ELSE [c EXCEPT !.route = route]

\* The click is started once more, at the new rate.
rearm(c) == [restartRun(c, "engine-restarted") EXCEPT !.schedule = FALSE]

\* A tap in a run whose click is armed.
tap(c, at) ==
  LET new == [at |-> at, real |-> device.real, run |-> engine.run] IN
  CASE engine.rate # c.rate -> rearm(c)
    [] engine.rate = c.rate /\ engineRestarted(c.lastPair, engine.run) ->
         restartRun(c, "engine-restarted")
    [] OTHER ->
         [c EXCEPT !.taps = Append(@, new), !.notice = "none",
                   !.lastPair = engine.run]

AfterTap(c, n) ==
  CASE ~n.schedule -> <<StartCall("cal", c.gen)>>
    [] n.schedule /\ n.taps = <<>> -> <<>>
    [] n.schedule /\ Len(n.taps) \in 1..(Taps - 1) ->
         <<Ask("confirm", n)>>
    [] OTHER -> <<Ask("finish", n)>>

\* What armClick makes of the start's answer.
Armed(c, a) ==
  IF a.gen # c.gen THEN c
  ELSE IF a.result # "ok"
       THEN [c EXCEPT !.phase = IF a.result = "busy" THEN "busy"
                                ELSE "failed"]
       ELSE [c EXCEPT !.schedule = TRUE, !.rate = engine.rate]

LateStart(c, a) == a.gen # c.gen /\ a.result = "ok" /\ c.open = -1

\* The last answer opening waits for: the run is on and the route watched.
\* Until then the local route of openSession is kept in the session's.
Running(c, route) ==
  [c EXCEPT !.phase = "running", !.route = route, !.watching = "asked"]

openSession(c, a) ==
  CASE a.call = "route" /\ a.result = "failed" ->
         [c EXCEPT !.phase = "route-failed"]
    [] a.call = "route" /\ a.result = "ok" -> [c EXCEPT !.route = a.route]
    [] a.call = "start" /\ a.result = "ok" /\ c.route.certain ->
         Running(Armed(c, a), c.route)
    [] a.call = "start" /\ ~(a.result = "ok" /\ c.route.certain) -> Armed(c, a)
    [] a.call = "reread" /\ a.result = "failed" ->
         [c EXCEPT !.phase = "route-failed"]
    [] OTHER -> Running(c, a.route)

\* The calls that follow each of them.
openNext(c, a) ==
  CASE a.call = "route" /\ a.result = "ok" -> <<StartCall("cal", c.gen)>>
    [] a.call = "start" /\ a.result = "ok" /\ ~c.route.certain ->
         <<Ask("reread", c)>>
    [] a.call = "start" /\ a.result = "ok" /\ c.route.certain ->
         <<Ask("watch", c)>>
    [] a.call = "reread" /\ a.result = "failed" -> <<StopCall>>
    [] a.call = "reread" /\ a.result = "ok" -> <<Ask("watch", c)>>
    [] OTHER -> <<>>

confirmClickRunning(c, a) ==
  IF ~a.active /\ c.phase = "running"
  THEN [c EXCEPT !.schedule = FALSE, !.phase = "stopped"] ELSE c

\* Mutant: the last tap's answer ends whatever run is on.
finishRunAny(c, a) ==
  IF a.active THEN [c EXCEPT !.phase = "done"]
  ELSE [c EXCEPT !.schedule = FALSE, !.phase = "stopped"]

finishRun(c, a) ==
  IF c.taps # a.taps THEN c
  ELSE IF a.active THEN [c EXCEPT !.phase = "done"]
  ELSE [c EXCEPT !.schedule = FALSE, !.phase = "stopped"]

\* What the screen says of a run, and whether it offers to use it.
resultOf(c) ==
  LET live == analyseTaps(c.taps) IN
  CASE c.phase \in {"busy", "failed", "route-failed", "stopped"} -> c.phase
    [] c.phase \in {"idle", "starting", "running", "done"}
         /\ c.notice # "none" -> c.notice
    [] OTHER ->
         IF live.kind # "measured"
         THEN IF c.phase = "done" THEN live.kind ELSE "nothing"
         ELSE IF c.phase = "done" /\ ~c.route.certain THEN "route unknown"
         ELSE "measured"

ResultRow(c) == resultOf(c) # "nothing"
TapZone(c) == Len(c.taps)

calibrationView(c) ==
  [count |-> TapZone(c), result |-> resultOf(c), said |-> ResultRow(c),
   canUse |-> canUseOutcome(c),
   showUse |-> ~(c.phase = "done" /\ analyseTaps(c.taps).kind # "measured")]

---------------------------------------------------------------------------
(* The rig click.                                                          *)

isSounding(phase) == phase \in {"starting", "playing"}
play(r, subdivision) ==
  [r EXCEPT !.gen = @ + 1, !.phase = "starting", !.subdivision = subdivision]
rigStop(r) == [r EXCEPT !.gen = @ + 1, !.phase = "idle"]
Played(r, a) ==
  IF a.gen # r.gen THEN r
  ELSE [r EXCEPT !.phase = CASE a.result = "ok" -> "playing"
                             [] a.result = "busy" -> "busy"
                             [] OTHER -> "failed"]
LatePlay(r, a) == a.gen # r.gen /\ a.result = "ok" /\ ~isSounding(r.phase)

rigChip == IF isSounding(rig.phase) THEN "Stop" ELSE "Play"
rigClickHint ==
  CASE screen.running -> "needs stopped metronome"
    [] ~screen.running /\ rig.phase \in {"busy", "failed"} -> "failed"
    [] OTHER -> "none"

attachRig == [rig EXCEPT !.held = TRUE]

\* Mutant: leaving the rig section lets go of the engine, not of the click.
detachRigSounding == [rig EXCEPT !.held = FALSE]

detachRig == [rigStop(rig) EXCEPT !.held = FALSE]

---------------------------------------------------------------------------
Init ==
  /\ engine = [click |-> "none", metro |-> FALSE, run |-> 1, rate |-> 1]
  /\ \E r \in Routes, guess \in Routes, sure \in BOOLEAN :
       /\ sure => guess = r
       /\ device = [real |-> r, reported |-> guess, certain |-> sure]
  /\ calls = <<>> /\ answers = <<>> /\ events = <<>>
  /\ cal = [phase |-> "idle", route |-> Nobody, taps |-> <<>>,
            notice |-> "none", gen |-> 0, open |-> -1, watching |-> "no",
            schedule |-> FALSE, rate |-> 0, lastPair |-> 0]
  /\ rig = [phase |-> "idle", subdivision |-> 1, gen |-> 0, held |-> TRUE]
  /\ screen = [shown |-> "settings", active |-> TRUE, running |-> FALSE]
  /\ saves = {} /\ stored = {} /\ blind = FALSE /\ crossed = FALSE
  /\ spent = [moves |-> 0, turns |-> 0, faults |-> 0, taps |-> 0]

Outside == <<engine, device, answers, events>>
Ghosts == <<stored, blind, crossed>>

\* The screens: settings with the rig section under the calibration screen.
OpenCalibration ==
  /\ screen.shown = "settings" /\ screen.active /\ MaySpend("moves", MaxMoves)
  /\ screen' = [screen EXCEPT !.shown = "calibration"]
  /\ rig' = detachRig /\ cal' = Opened(cal) /\ Spend("moves")
  /\ Post(<<StopCall, Ask("route", Opened(cal))>>)
  /\ blind' = FALSE
  /\ UNCHANGED <<Outside, saves, stored, crossed>>

CloseCalibration ==
  /\ screen' = [screen EXCEPT !.shown = "settings"]
  /\ cal' = Closed(cal) /\ rig' = attachRig
  /\ Post(<<StopCall>>)

Back ==
  /\ screen.shown = "calibration" /\ screen.active
  /\ MaySpend("moves", MaxMoves) /\ Spend("moves")
  /\ CloseCalibration
  /\ UNCHANGED <<Outside, saves, Ghosts>>

\* Background takes the click of whichever screen is shown; coming back
\* opens an idle calibration again.
ToBackground ==
  /\ screen.active /\ MaySpend("moves", MaxMoves) /\ Spend("moves")
  /\ screen' = [screen EXCEPT !.active = FALSE]
  /\ IF screen.shown = "settings" THEN rig' = detachRig /\ cal' = cal
     ELSE cal' = Closed(cal) /\ rig' = rig
  /\ Post(<<StopCall>>)
  /\ UNCHANGED <<Outside, saves, Ghosts>>

ToForeground ==
  /\ ~screen.active
  /\ screen' = [screen EXCEPT !.active = TRUE]
  /\ IF screen.shown = "settings"
     THEN rig' = attachRig /\ UNCHANGED <<cal, calls, blind>>
     ELSE /\ rig' = rig
          /\ IF cal.phase = "idle"
             THEN /\ cal' = Opened(cal) /\ blind' = FALSE
                  /\ Post(<<Ask("route", Opened(cal))>>)
             ELSE UNCHANGED <<cal, calls, blind>>
  /\ UNCHANGED <<Outside, saves, stored, crossed, spent>>

Unheard == cal.watching = "asked" /\ device.real # cal.route.id

Tap ==
  /\ screen.shown = "calibration" /\ screen.active
  /\ cal.phase = "running" /\ cal.schedule /\ Len(cal.taps) < Taps
  /\ MaySpend("taps", MaxTaps) /\ Spend("taps")
  /\ \E at \in Deviations :
       /\ cal' = tap(cal, at)
       /\ Post(AfterTap(cal, tap(cal, at)))
       /\ blind' = ((blind /\ tap(cal, at).taps # <<>>) \/ Unheard)
  /\ UNCHANGED <<Outside, rig, screen, saves, stored, crossed>>

startOver ==
  /\ screen.shown = "calibration" /\ screen.active
  /\ MaySpend("moves", MaxMoves) /\ Spend("moves")
  /\ IF cal.phase \in {"running", "done"}
     THEN cal' = restartRun(cal, "none") /\ calls' = calls
     ELSE cal' = Opened(cal) /\ Post(<<Ask("route", Opened(cal))>>)
  /\ blind' = FALSE
  /\ UNCHANGED <<Outside, rig, screen, saves, stored, crossed>>

\* Use: the offset is stored for the route of the moment it is pressed.
Use ==
  /\ screen.shown = "calibration" /\ screen.active
  /\ calibrationView(cal).showUse /\ calibrationView(cal).canUse
  /\ saves = {}
  /\ saves' = {cal.route.id}
  /\ stored' = stored \cup
       {[route |-> cal.route.id, blind |-> blind \/ events # <<>> \/ cal.watching = "asked",
         reals |-> {cal.taps[i].real : i \in DOMAIN cal.taps},
         runs |-> {cal.taps[i].run : i \in DOMAIN cal.taps}]}
  /\ UNCHANGED <<Outside, calls, cal, rig, screen, blind, crossed, spent>>

\* Stored: the screen goes back.
Used ==
  /\ saves # {} /\ saves' = {}
  /\ IF screen.shown = "calibration" THEN CloseCalibration
     ELSE UNCHANGED <<screen, cal, rig, calls>>
  /\ UNCHANGED <<Outside, Ghosts, spent>>

UseRefused ==
  /\ saves # {} /\ saves' = {} /\ MaySpend("faults", MaxFaults)
  /\ Spend("faults")
  /\ UNCHANGED <<Outside, calls, cal, rig, screen, Ghosts>>

Toggle ==
  /\ screen.shown = "settings" /\ screen.active
  /\ rigClickHint # "needs stopped metronome"
  /\ MaySpend("moves", MaxMoves) /\ Spend("moves")
  /\ IF rigChip = "Stop" THEN rig' = rigStop(rig) /\ Post(<<StopCall>>)
     ELSE /\ rig' = play(rig, 1)
          /\ Post(<<StartCall("rig", play(rig, 1).gen)>>)
  /\ UNCHANGED <<Outside, cal, screen, saves, Ghosts>>

Hear ==
  /\ screen.shown = "settings" /\ screen.active /\ ~screen.running
  /\ MaySpend("moves", MaxMoves) /\ Spend("moves")
  /\ rig' = play(rig, 2) /\ Post(<<StartCall("rig", play(rig, 2).gen)>>)
  /\ UNCHANGED <<Outside, cal, screen, saves, Ghosts>>

---------------------------------------------------------------------------
(* The engine, the output and the answers.                                 *)

\* The metronome is started from the card: the rig section stops its click.
MetronomeStarts ==
  /\ ~screen.running /\ MaySpend("turns", MaxTurns) /\ Spend("turns")
  /\ screen' = [screen EXCEPT !.running = TRUE]
  /\ rig' = rigStop(rig)
  /\ Post(<<[StopCall EXCEPT !.call = "metro"], StopCall>>)
  /\ UNCHANGED <<Outside, cal, saves, Ghosts>>

MetronomeStops ==
  /\ screen.running /\ screen' = [screen EXCEPT !.running = FALSE]
  /\ Post(<<[StopCall EXCEPT !.call = "metroStop"]>>)
  /\ UNCHANGED <<Outside, cal, rig, saves, Ghosts, spent>>

EngineRestarts ==
  /\ MaySpend("turns", MaxTurns) /\ Spend("turns")
  /\ \E rate \in {1, 2}, click \in {engine.click, "none"} :
       engine' = [engine EXCEPT !.run = @ + 1, !.rate = rate, !.click = click]
  /\ UNCHANGED <<device, calls, answers, events, cal, rig, screen, saves,
                 Ghosts>>

\* The output changes, or a guess is confirmed; the new guess is right.
OutputChanges ==
  /\ MaySpend("turns", MaxTurns) /\ Spend("turns")
  /\ \E d \in [real : Routes, reported : Routes, certain : BOOLEAN] :
       /\ d.reported = d.real
       /\ d.real = device.real => ~device.certain /\ d.certain
       /\ device' = d
       /\ events' = Append(events, [id |-> d.reported, certain |-> d.certain])
       /\ blind' = (blind \/ (d.real # device.real /\ ~cal.route.certain))
  /\ UNCHANGED <<engine, calls, answers, cal, rig, screen, saves, stored,
                 crossed>>

Answer(call, result) ==
  [call |-> call.call, of |-> call.of, gen |-> call.gen, taps |-> call.taps,
   result |-> result, active |-> engine.click # "none", route |-> Reported]

rigClickStart(call, ok) ==
  IF engine.metro
  THEN engine' = engine /\ answers' = Append(answers, Answer(call, "busy"))
  ELSE IF ok
  THEN /\ engine' = [engine EXCEPT !.click = call.of]
       /\ answers' = Append(answers, Answer(call, "ok"))
  ELSE engine' = engine /\ answers' = Append(answers, Answer(call, "failed"))

\* The native thread takes the next call.  A start is refused by a full
\* queue, which a click that sounds keeps empty.
Run ==
  /\ calls # <<>> /\ calls' = Tail(calls)
  /\ LET call == Head(calls) IN
     \/ /\ call.call = "stop" /\ engine' = [engine EXCEPT !.click = "none"]
        /\ UNCHANGED <<answers, spent>>
     \/ /\ call.call = "metro"
        /\ engine' = [engine EXCEPT !.click = "none", !.metro = TRUE]
        /\ UNCHANGED <<answers, spent>>
     \/ /\ call.call = "metroStop"
        /\ engine' = [engine EXCEPT !.metro = FALSE]
        /\ UNCHANGED <<answers, spent>>
     \/ /\ call.call = "start" /\ rigClickStart(call, TRUE)
        /\ spent' = spent
     \/ /\ call.call = "start" /\ ~engine.metro /\ engine.click = "none"
        /\ MaySpend("faults", MaxFaults) /\ Spend("faults")
        /\ rigClickStart(call, FALSE)
     \/ /\ call.call \in {"route", "reread", "watch", "confirm", "finish"}
        /\ answers' = Append(answers, Answer(call, "ok"))
        /\ engine' = engine /\ spent' = spent
     \/ /\ call.call \in {"route", "reread"}
        /\ MaySpend("faults", MaxFaults) /\ Spend("faults")
        /\ answers' = Append(answers, Answer(call, "failed"))
        /\ engine' = engine
  /\ UNCHANGED <<device, events, cal, rig, screen, saves, Ghosts>>

\* The answer of a session that has been closed since: only a start matters.
AnswerTooLate ==
  /\ answers # <<>> /\ answers' = Tail(answers)
  /\ LET a == Head(answers) IN
     /\ a.of = "cal" /\ a.gen # cal.gen
     /\ IF a.call = "start" /\ LateStart(cal, a)
        THEN Post(<<StopCall>>) /\ crossed' = (crossed \/ isSounding(rig.phase))
        ELSE UNCHANGED <<calls, crossed>>
  /\ UNCHANGED <<engine, device, events, cal, rig, screen, saves, stored,
                 blind, spent>>

AnswerToOpening ==
  /\ answers # <<>> /\ answers' = Tail(answers)
  /\ LET a == Head(answers) IN
     /\ a.of = "cal" /\ a.gen = cal.gen /\ cal.phase = "starting"
     /\ a.call \in {"route", "start", "reread"}
     /\ cal' = openSession(cal, a) /\ Post(openNext(cal, a))
  /\ UNCHANGED <<engine, device, events, rig, screen, saves, Ghosts, spent>>

AnswerToRun ==
  /\ answers # <<>> /\ answers' = Tail(answers)
  /\ LET a == Head(answers) IN
     /\ a.of = "cal" /\ a.gen = cal.gen
     /\ \/ a.call = "start" /\ cal.phase # "starting" /\ cal' = Armed(cal, a)
        \/ a.call = "confirm" /\ cal' = confirmClickRunning(cal, a)
        \/ a.call = "finish" /\ cal' = finishRun(cal, a)
        \/ /\ a.call = "watch" /\ cal.watching = "asked"
           /\ cal' = [onRoute(cal, a.route) EXCEPT !.watching = "heard"]
        \/ a.call = "watch" /\ cal.watching # "asked" /\ cal' = cal
     /\ blind' = (blind /\ cal'.taps # <<>>)
  /\ UNCHANGED <<engine, device, calls, events, rig, screen, saves, stored,
                 crossed, spent>>

AnswerToRig ==
  /\ answers # <<>> /\ answers' = Tail(answers)
  /\ LET a == Head(answers) IN
     /\ a.of = "rig" /\ rig' = Played(rig, a)
     /\ IF LatePlay(rig, a)
        THEN /\ Post(<<StopCall>>)
             /\ crossed' = (crossed \/ cal.open # -1)
        ELSE UNCHANGED <<calls, crossed>>
  /\ UNCHANGED <<engine, device, events, cal, screen, saves, stored, blind,
                 spent>>

\* A change of output reaches the session that watches.
RouteHeard ==
  /\ events # <<>> /\ events' = Tail(events)
  /\ IF cal.watching = "no" THEN UNCHANGED <<cal, blind>>
     ELSE /\ cal' = [onRoute(cal, Head(events)) EXCEPT !.watching = "heard"]
          /\ blind' = (blind /\ cal'.taps # <<>>)
  /\ UNCHANGED <<engine, device, calls, answers, rig, screen, saves, stored,
                 crossed, spent>>

Screens == OpenCalibration \/ Back \/ ToBackground \/ ToForeground
Session == Tap \/ startOver \/ Use \/ Used \/ UseRefused
Settings == Toggle \/ Hear
World == MetronomeStarts \/ MetronomeStops \/ EngineRestarts \/ OutputChanges
Answers == AnswerTooLate \/ AnswerToOpening \/ AnswerToRun \/ AnswerToRig
Next == Screens \/ Session \/ Settings \/ World \/ Run \/ Answers \/ RouteHeard

Spec == Init /\ [][Next]_vars

---------------------------------------------------------------------------
Settled == calls = <<>> /\ answers = <<>> /\ events = <<>>

(* The one click of the engine belongs to somebody: when every call is     *)
(* answered it sounds only for a calibration that is open or for a rig     *)
(* click that is shown playing, and a click shown playing does sound       *)
(* unless a late start of the other owner stopped it, or the engine        *)
(* restarted.                                                              *)
ClickIsOwned ==
  Settled =>
    /\ engine.click = "cal" => cal.open # -1
    /\ engine.click = "rig" => rig.phase = "playing"
    /\ rig.phase = "playing" /\ ~crossed /\ engine.run = 1 =>
         engine.click = "rig"
    /\ ~screen.active => engine.click = "none" \/ screen.running

(* The taps of a run belong together: they were made on one run of the     *)
(* engine, and on the output the session shows once it has heard of every  *)
(* change, unless that output was only guessed when it changed; and a run  *)
(* that is done offers to be used just when it shows its number.           *)
RunIsWhole ==
  /\ \A i, j \in DOMAIN cal.taps : cal.taps[i].run = cal.taps[j].run
  /\ Settled /\ cal.route.certain /\ ~blind
       /\ cal.phase \in {"running", "done"} =>
       \A i \in DOMAIN cal.taps : cal.taps[i].real = cal.route.id
  /\ cal.phase = "done" => Len(cal.taps) = Taps
  /\ cal.phase = "done" /\ calibrationView(cal).showUse =>
       (calibrationView(cal).canUse <=> resultOf(cal) = "measured")

(* What is stored for an output was measured on that output: unless the    *)
(* session has yet to hear of a change, Use never stores taps of another   *)
(* one, nor of two runs of the engine.                                     *)
StoredIsMeasured ==
  \A s \in stored : Cardinality(s.runs) = 1 /\ (s.blind \/ s.reals = {s.route})
=============================================================================
