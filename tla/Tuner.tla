------------------------------- MODULE Tuner -------------------------------
(***************************************************************************)
(* The tuner: its store, the queue of commands to the engine, the engine's *)
(* tuning and hops, and the frame callback that turns hops into "tuned".   *)
(*                                                                         *)
(* core-state/src/tuner/store.ts owns the microphone: it is opened for the *)
(* screen that shows, after the permission is answered, and every setting  *)
(* goes through one queue whose tasks wait for each other.  The engine     *)
(* (tuner.cpp, tuner_tuning.cpp, tuning_mode*.cpp) takes settings from a   *)
(* ring its analysis thread drains.  useTunerFrame.ts polls the last hop   *)
(* on the UI thread and reports locks back to the JS thread.               *)
(*                                                                         *)
(* A hop is its number, the string it names and whether it is locked; the  *)
(* pitches, the needle and the captions are left out.  Bounds: MaxTrips    *)
(* (screens shown and left, trips to the background, retries), MaxSets     *)
(* (settings touched), MaxHops.  The engine's ring holds RingSize commands *)
(* and RatioFull hops in the window make a lock.                           *)
(***************************************************************************)
EXTENDS Integers, Sequences, FiniteSets

LOCAL INSTANCE SequencesExt

CONSTANTS
  Tunings,          \* function: a tuning to the number of its strings
  A4s,              \* values the reference is set to; 0 is the engine's own
  RingSize,         \* kCommandCapacity
  MaxBusyRetries,   \* MAX_BUSY_RETRIES
  RatioFull,        \* hops in the window that make a lock
  MaxTrips, MaxSets, MaxHops

VARIABLES
  st,      \* the store
  life,    \* what createTunerStore keeps beside it, and the phone's state
  q,       \* the command queue
  asks,    \* permission questions not yet answered
  eng,     \* the engine
  ui,      \* useTunerFrame's values on the UI and the JS thread
  flight,  \* lock events on their way to JS
  lost,    \* history: a setting was given up or refused since the last push
  wrong,   \* history: a string marked tuned that the tuning never had locked
  trips, sets

vars == <<st, life, q, asks, eng, ui, flight, lost, wrong, trips, sets>>

None == 0
Auto == 0
Chromatic == -1
NoString == 0

Default == CHOOSE t \in DOMAIN Tunings : TRUE

hasString(t, i) == t # None /\ i \in 1..Tunings[t]

Kind(mode) == IF mode > 0 THEN 1 ELSE mode

isCurrent(s, l, epoch) == epoch = l.epoch /\ s.open /\ l.active

---------------------------------------------------------------------------
(* The engine.                                                             *)

ClearNote(g) == [g EXCEPT !.heard = FALSE, !.string = NoString, !.ratio = 0]

SetTuning(g, t) == ClearNote([g EXCEPT !.tuning = t, !.mode = Auto])
SetTarget(g, mode) == ClearNote([g EXCEPT !.mode = mode])

ApplyCommand(g, c) ==
  CASE c.c = "tuning" -> SetTuning(g, c.v)
    [] c.c = "mode"   -> SetTarget(g, c.v)
    [] c.c = "a4"     -> [g EXCEPT !.a4 = c.v]
    [] c.c = "reset"  -> ClearNote(g)

ApplyCommands(g) == [FoldLeft(ApplyCommand, g, g.ring) EXCEPT !.ring = <<>>]

\* What SetTuning and SetTargetString check before the command is queued.
Refused(g, c) == c.c = "mode" /\ c.v > 0 /\ c.v > g.count

Counted(g, c) == IF c.c = "tuning" THEN [g EXCEPT !.count = Tunings[c.v]] ELSE g

\* With the microphone off the command applies before SendCommand returns.
SendCommand(g, c) ==
  LET pushed == [g EXCEPT !.ring = Append(@, [c |-> c.c, v |-> c.v])] IN
  Counted(IF g.running THEN pushed ELSE ApplyCommands(pushed), c)

EngineStart(g) == [ClearNote(ApplyCommands(g)) EXCEPT !.running = TRUE]

EngineStop(g) == [ClearNote(ApplyCommands(g)) EXCEPT !.running = FALSE]

\* The strings this hop can name: the one held, else those of the mode.
Named(g) ==
  CASE g.mode = Chromatic -> {NoString}
    [] g.mode > 0         -> {g.mode}
    [] OTHER              -> IF g.heard THEN {g.string}
                             ELSE IF g.tuning = None THEN {}
                             ELSE 1..Tunings[g.tuning]

Track(g, string, inside) ==
  [g EXCEPT !.heard = TRUE, !.string = string,
            !.ratio = IF ~inside THEN 0
                      ELSE IF @ < RatioFull THEN @ + 1 ELSE @]

isLocked(g) == g.heard /\ g.ratio = RatioFull

---------------------------------------------------------------------------
(* The queue: a task runs when the ones before it have settled.            *)

Setter(c, v) == [k |-> "set", c |-> c, v |-> v, n |-> 0, busy |-> FALSE]
Stopping == [k |-> "stop", c |-> "stop", v |-> 0, n |-> 0, busy |-> FALSE]
Starting(epoch) ==
  [k |-> "start", c |-> "start", v |-> 0, n |-> epoch, busy |-> FALSE]

\* Mutant: the mode before the tuning that resets it.
pushConfigModeFirst(s) ==
  <<Setter("mode", s.mode)>>
  \o (IF s.tuning # None THEN <<Setter("tuning", s.tuning)>> ELSE <<>>)
  \o (IF s.a4 # 0 THEN <<Setter("a4", s.a4)>> ELSE <<>>)

\* The engine's order: a tuning selects auto, so the mode goes last.
pushConfig(s) ==
  (IF s.tuning # None THEN <<Setter("tuning", s.tuning)>> ELSE <<>>)
  \o (IF s.a4 # 0 THEN <<Setter("a4", s.a4)>> ELSE <<>>)
  \o <<Setter("mode", s.mode)>>

\* sendSetter, while the screen is shown.
Sent(s, c, v) == IF s.open THEN q \o <<Setter(c, v)>> ELSE q

---------------------------------------------------------------------------
(* The readout is cleared when what the engine measures against changes.   *)

resetKey(s) == <<s.open, s.tuning, Kind(s.mode)>>

\* The layout effect: JS keeps the id at once, the UI thread's values follow.
WithReset(s) ==
  ui' = IF resetKey(s) = resetKey(st) THEN ui
        ELSE [ui EXCEPT !.resetJs = eng.id, !.posted = Append(@, eng.id)]

Becomes(s) == st' = s /\ WithReset(s)

---------------------------------------------------------------------------
(* Screens, the app's activity and the permission.                         *)

startCapture(epoch, ask) == asks' = asks \cup {[e |-> epoch, ask |-> ask]}

Trip == /\ trips < MaxTrips /\ trips' = trips + 1
        /\ UNCHANGED <<eng, flight, lost, wrong, sets>>

enter(l) ==
  IF st.open THEN /\ life' = l
                  /\ UNCHANGED <<st, ui, asks>>
  ELSE LET s == [st EXCEPT !.open = TRUE, !.mode = Auto, !.tuned = {},
                           !.tuning = IF @ = None THEN Default ELSE @,
                           !.mic = "off"]
       IN  /\ life' = [l EXCEPT !.active = l.fg, !.epoch = @ + 1]
           /\ Becomes(s)
           /\ IF l.fg THEN startCapture(l.epoch + 1, TRUE)
              ELSE UNCHANGED asks

\* A screen gets the focus; across a relaunch the old one may still have it.
Acquire ==
  /\ Trip
  /\ enter([life EXCEPT !.hold = @ + 1, !.screens = @ \cup {life.hold + 1}])
  /\ UNCHANGED q

\* Mutant: any screen's blur leaves.
ReleaseAny(h) ==
  /\ Trip /\ h \in life.screens
  /\ IF ~st.open
     THEN /\ life' = [life EXCEPT !.screens = @ \ {h}]
          /\ UNCHANGED <<st, ui, q>>
     ELSE /\ Becomes([st EXCEPT !.open = FALSE, !.mic = "off"])
          /\ life' = [life EXCEPT !.epoch = @ + 1, !.screens = @ \ {h}]
          /\ q' = Append(q, Stopping)
  /\ UNCHANGED asks

\* Only the newest hold may leave.
Release(h) ==
  /\ Trip /\ h \in life.screens
  /\ IF h # life.hold \/ ~st.open
     THEN /\ life' = [life EXCEPT !.screens = @ \ {h}]
          /\ UNCHANGED <<st, ui, q>>
     ELSE /\ Becomes([st EXCEPT !.open = FALSE, !.mic = "off"])
          /\ life' = [life EXCEPT !.epoch = @ + 1, !.screens = @ \ {h}]
          /\ q' = Append(q, Stopping)
  /\ UNCHANGED asks

Background ==
  /\ Trip /\ life.fg
  /\ IF st.open /\ life.active
     THEN /\ life' = [life EXCEPT !.fg = FALSE, !.active = FALSE,
                                  !.epoch = @ + 1]
          /\ Becomes([st EXCEPT !.mic = "off"])
          /\ q' = Append(q, Stopping)
     ELSE /\ life' = [life EXCEPT !.fg = FALSE]
          /\ UNCHANGED <<st, ui, q>>
  /\ UNCHANGED asks

\* The player may come back from the phone's settings with the permission.
Foreground ==
  /\ Trip /\ ~life.fg
  /\ \E os \in {life.os, "granted"} :
       IF st.open /\ ~life.active
       THEN /\ life' = [life EXCEPT !.fg = TRUE, !.active = TRUE, !.os = os,
                                    !.epoch = @ + 1]
            /\ startCapture(life.epoch + 1, FALSE)
       ELSE /\ life' = [life EXCEPT !.fg = TRUE, !.os = os]
            /\ UNCHANGED asks
  /\ UNCHANGED <<st, ui, q>>

\* What the hint card offers while the microphone cannot be used.
tunerHint(s) ==
  CASE s.permission = "denied"  -> "requestMic"
    [] s.permission = "blocked" -> "openSettings"
    [] s.mic = "unavailable"    -> "retryMic"
    [] OTHER                    -> "none"

\* handleHintAction; the settings are left by coming back to the front.
retryMic ==
  /\ Trip /\ st.open /\ life.active
  /\ tunerHint(st) \in {"requestMic", "retryMic"}
  /\ life' = [life EXCEPT !.epoch = @ + 1]
  /\ startCapture(life.epoch + 1, TRUE)
  /\ UNCHANGED <<st, ui, q>>

\* A prompt can end in any answer; a check only tells granted from not.
PermissionAnswers(a) ==
  IF life.os = "granted" THEN {"granted"}
  ELSE IF a.ask THEN IF life.os = "blocked" THEN {"blocked"}
                     ELSE {"granted", "denied", "blocked"}
  ELSE {"denied"}

PermissionAnswered(a) ==
  \E answer \in PermissionAnswers(a) :
    /\ asks' = asks \ {a}
    /\ life' = [life EXCEPT !.os = IF a.ask THEN answer ELSE @]
    /\ IF ~isCurrent(st, life, a.e) THEN UNCHANGED <<st, q, lost>>
       ELSE IF answer # "granted"
       THEN /\ st' = [st EXCEPT !.permission = answer, !.mic = "off"]
            /\ UNCHANGED <<q, lost>>
       ELSE /\ st' = [st EXCEPT !.permission = answer, !.mic = "starting"]
            /\ q' = q \o pushConfig(st)
                      \o <<Setter("reset", 0), Starting(a.e)>>
            /\ lost' = FALSE
    /\ UNCHANGED <<eng, ui, flight, wrong, trips, sets>>

---------------------------------------------------------------------------
(* The queue runs.                                                         *)

AtHead(k) == q # <<>> /\ Head(q).k = k

\* sendWithBusyRetry: a full ring is tried again, up to MAX_BUSY_RETRIES.
SendSetter ==
  /\ AtHead("set")
  /\ LET c == Head(q)
         full == eng.running /\ Len(eng.ring) = RingSize
     IN  IF Refused(eng, c)
         THEN q' = Tail(q) /\ lost' = TRUE /\ UNCHANGED eng
         ELSE IF ~full
         THEN q' = Tail(q) /\ eng' = SendCommand(eng, c) /\ UNCHANGED lost
         ELSE IF c.n < MaxBusyRetries
         THEN /\ q' = <<[c EXCEPT !.n = @ + 1]>> \o Tail(q)
              /\ UNCHANGED <<eng, lost>>
         ELSE q' = Tail(q) /\ lost' = TRUE /\ UNCHANGED eng
  /\ UNCHANGED <<st, life, asks, ui, flight, wrong, trips, sets>>

\* stopCapture: only after a start that succeeded.
RunStop ==
  /\ AtHead("stop")
  /\ q' = Tail(q)
  /\ life' = [life EXCEPT !.capturing = FALSE]
  /\ eng' = IF life.capturing THEN EngineStop(eng) ELSE eng
  /\ UNCHANGED <<st, asks, ui, flight, lost, wrong, trips, sets>>

BeginStart ==
  /\ AtHead("start") /\ ~Head(q).busy
  /\ IF ~isCurrent(st, life, Head(q).n)
     THEN q' = Tail(q) /\ UNCHANGED st
     ELSE IF life.capturing
     THEN /\ st' = [st EXCEPT !.mic = "listening"]
          /\ q' = Tail(q)
     ELSE /\ q' = <<[Head(q) EXCEPT !.busy = TRUE]>> \o Tail(q)
          /\ UNCHANGED st
  /\ UNCHANGED <<life, asks, eng, ui, flight, lost, wrong, trips, sets>>

\* Mutant: the answer is believed after the screen is left.
StartAnsweredLate ==
  \E ok \in BOOLEAN :
    /\ AtHead("start") /\ Head(q).busy
    /\ q' = Tail(q)
    /\ eng' = IF ok THEN EngineStart(eng) ELSE eng
    /\ life' = [life EXCEPT !.capturing = @ \/ ok]
    /\ st' = [st EXCEPT !.mic = IF ok THEN "listening" ELSE "unavailable"]
    /\ UNCHANGED <<asks, ui, flight, lost, wrong, trips, sets>>

\* tunerStart's promise settles; a stop that is wanted is queued behind it.
StartAnswered ==
  \E ok \in BOOLEAN :
    /\ AtHead("start") /\ Head(q).busy
    /\ q' = Tail(q)
    /\ eng' = IF ok THEN EngineStart(eng) ELSE eng
    /\ life' = [life EXCEPT !.capturing = @ \/ ok]
    /\ st' = IF ~isCurrent(st, life, Head(q).n) THEN st
             ELSE [st EXCEPT !.mic = IF ok THEN "listening"
                                     ELSE "unavailable"]
    /\ UNCHANGED <<asks, ui, flight, lost, wrong, trips, sets>>

---------------------------------------------------------------------------
(* The settings.                                                           *)

Set(s, queue) ==
  /\ sets < MaxSets /\ sets' = sets + 1
  /\ Becomes(s) /\ q' = queue
  /\ UNCHANGED <<life, asks, eng, flight, lost, wrong, trips>>

setAuto == Set([st EXCEPT !.mode = Auto], Sent(st, "mode", Auto))

setChromatic ==
  Set([st EXCEPT !.mode = Chromatic], Sent(st, "mode", Chromatic))

\* A tap on a peg locks its string, and on the locked one returns to auto.
handlePeg(i) ==
  /\ st.open /\ st.mode # Chromatic /\ hasString(st.tuning, i)
  /\ IF st.mode = i THEN setAuto
     ELSE Set([st EXCEPT !.mode = i], Sent(st, "mode", i))

handleChromatic ==
  st.open /\ IF st.mode = Chromatic THEN setAuto ELSE setChromatic

\* setTuning: like the engine, this returns to auto.
setTuning(t) == Set([st EXCEPT !.tuning = t, !.mode = Auto, !.tuned = {}],
                    Sent(st, "tuning", t))

setA4(hz) == Set([st EXCEPT !.a4 = hz], Sent(st, "a4", hz))

---------------------------------------------------------------------------
(* Hops, frames and locks.                                                 *)

DrainRing ==
  /\ eng.running /\ eng.ring # <<>>
  /\ eng' = ApplyCommands(eng)
  /\ UNCHANGED <<st, life, q, asks, ui, flight, lost, wrong, trips, sets>>

\* A hop hears a string in or out of the window, misses the note it holds,
\* or gives it up.
OnHop ==
  /\ eng.running /\ eng.id < MaxHops
  /\ \E next \in {Track(eng, s, inside) : s \in Named(eng),
                                          inside \in BOOLEAN}
                 \cup {eng, ClearNote(eng)} :
       eng' = [next EXCEPT !.id = @ + 1]
  /\ UNCHANGED <<st, life, q, asks, ui, flight, lost, wrong, trips, sets>>

lockArmed(resetId, id) == id > resetId

\* Mutant: the first hop after the reset arms, locked or not.
nextArmedAtOnce(armed, g, resetId) == armed \/ lockArmed(resetId, g.id)

\* Armed once a later hop is heard unlocked.
nextArmed(armed, g, resetId) ==
  armed \/ (lockArmed(resetId, g.id) /\ ~isLocked(g))

nextLatch(g, armed) == IF armed /\ isLocked(g) THEN g.string ELSE NoString

lockFired(previous, next) == next # NoString /\ next # previous

\* One frame that finds a new hop.
onFrame ==
  /\ st.mic = "listening" /\ eng.id # ui.last
  /\ LET armed == nextArmed(ui.armed, eng, ui.resetId)
         next == nextLatch(eng, armed)
         by == IF armed /\ ~ui.armed
               THEN [id |-> eng.id, tuning |-> eng.tuning,
                     locked |-> isLocked(eng)]
               ELSE ui.by
     IN  /\ ui' = [ui EXCEPT !.last = eng.id, !.armed = armed,
                             !.latched = next, !.by = by]
         /\ flight' = IF lockFired(ui.latched, next)
                      THEN Append(flight, [string |-> next, id |-> eng.id,
                                           tuning |-> eng.tuning, by |-> by,
                                           early |-> ui.posted # <<>>])
                      ELSE flight
  /\ UNCHANGED <<st, life, q, asks, eng, lost, wrong, trips, sets>>

NobodyArmed == [id |-> -1, tuning |-> None, locked |-> FALSE]

\* The reset reaches the UI thread's values.
ResetOnUi ==
  /\ ui.posted # <<>>
  /\ ui' = [ui EXCEPT !.resetId = Head(ui.posted), !.posted = Tail(@),
                      !.armed = FALSE, !.latched = NoString, !.last = -1,
                      !.by = NobodyArmed]
  /\ UNCHANGED <<st, life, q, asks, eng, flight, lost, wrong, trips, sets>>

\* Mutant: an event already in flight when the reset lands is believed.
reportLockAnyway(e) == TRUE

reportLock(e) == lockArmed(ui.resetJs, e.id)

\* markTuned.  A lock of another tuning may only be believed if an unlocked
\* hop of that tuning came after the reset too, or if the frame ran before
\* the reset reached its thread (both are in the README).
LockReported ==
  /\ flight # <<>>
  /\ LET e == Head(flight)
         marks == /\ reportLock(e)
                  /\ st.mode # Chromatic
                  /\ hasString(st.tuning, e.string)
         excused == e.early \/ (~e.by.locked /\ e.by.id > ui.resetJs)
     IN  /\ flight' = Tail(flight)
         /\ st' = IF marks THEN [st EXCEPT !.tuned = @ \cup {e.string}]
                  ELSE st
         /\ wrong' = (wrong \/ (marks /\ e.tuning # st.tuning /\ ~excused))
  /\ UNCHANGED <<life, q, asks, eng, ui, lost, trips, sets>>

---------------------------------------------------------------------------
Init ==
  /\ st = [open |-> FALSE, mode |-> Auto, tuning |-> None, a4 |-> 0,
           tuned |-> {}, permission |-> "unknown", mic |-> "off"]
  /\ life = [epoch |-> 0, active |-> TRUE, capturing |-> FALSE, hold |-> 0,
             screens |-> {}, fg |-> TRUE, os |-> "unknown"]
  /\ q = <<>>
  /\ asks = {}
  /\ eng = [running |-> FALSE, ring |-> <<>>, tuning |-> None, count |-> 0,
            mode |-> Auto, a4 |-> 0, id |-> 0, heard |-> FALSE,
            string |-> NoString, ratio |-> 0]
  /\ ui = [last |-> -1, armed |-> FALSE, latched |-> NoString,
           resetId |-> -1, resetJs |-> -1, posted |-> <<>>,
           by |-> NobodyArmed]
  /\ flight = <<>>
  /\ lost = FALSE
  /\ wrong = FALSE
  /\ trips = 0
  /\ sets = 0

\* The pegs of the tuning in use; chromatic shows none.
PegSelector ==
  \E t \in DOMAIN Tunings : \E i \in 1..Tunings[t] : handlePeg(i)

A4Sheet == st.open /\ \E hz \in A4s : setA4(hz)

\* What the player can tap on the screen; the tuning comes from its sheet.
TunerScreen ==
  \/ PegSelector \/ A4Sheet \/ handleChromatic \/ retryMic
  \/ st.open /\ setAuto
  \/ \E t \in DOMAIN Tunings : setTuning(t)

\* The route acquires on focus and releases on blur.
TunerRoute == Acquire \/ \E h \in life.screens : Release(h)

Next ==
  \/ TunerRoute \/ Background \/ Foreground \/ TunerScreen
  \/ (\E a \in asks : PermissionAnswered(a))
  \/ SendSetter \/ RunStop \/ BeginStart \/ StartAnswered
  \/ DrainRing \/ OnHop \/ onFrame \/ ResetOnUi \/ LockReported

Spec == Init /\ [][Next]_vars

---------------------------------------------------------------------------
Quiet == q = <<>> /\ asks = {}

\* When nothing is pending the microphone is open exactly if the store says
\* it listens, and then a screen holds the tuner, the app is in front and the
\* permission was granted: no order of focus, blur, relaunch, background
\* trips, prompts and slow starts leaves it capturing behind another screen,
\* or dead on the newest one that shows.  (store.ts: epoch, capturing, acquire)
MicFollowsScreen ==
  Quiet => /\ eng.running = life.capturing
           /\ eng.running = (st.mic = "listening")
           /\ eng.running => st.open /\ life.fg /\ life.os = "granted"
           /\ st.open <=> life.hold \in life.screens
           /\ st.mic # "starting"
           /\ st.open /\ life.fg /\ st.permission = "granted" =>
                st.mic \in {"listening", "unavailable"}

\* Once every command has been taken the engine tunes to what the screen
\* shows, unless a setting was given up: the pushes at each start and the
\* single setters end in the store's tuning, mode and reference.
EngineFollows ==
  Quiet /\ eng.ring = <<>> /\ st.mic = "listening" /\ ~lost =>
    /\ eng.tuning = st.tuning /\ eng.mode = st.mode
    /\ st.a4 # 0 => eng.a4 = st.a4

\* No string is shown as tuned on the word of a lock that the tuning before
\* this one had, whether that lock was measured, reported or in flight when
\* the tuning changed.  (lock.ts, useTunerFrame.ts)
TunedTruly == ~wrong

=============================================================================
