-------------------------- MODULE EngineLifecycle --------------------------
(***************************************************************************)
(* engine.cpp: who starts and stops the audio device.  Control threads     *)
(* play, stop, hold, release, start and stop; the watchdog thread restarts *)
(* a dead stream and stops the device once the engine has been idle for a  *)
(* grace; the callback applies what the control threads queued.            *)
(*                                                                         *)
(* Every call of a control thread runs under KitbagCommands.cpp's          *)
(* commandMutex, so at most one call is in progress ("call"); playing is   *)
(* two calls, and another thread may act between them.  lifecycle_mutex_   *)
(* is held by a call from the moment it has it until it returns, and by    *)
(* the watchdog throughout a tick.                                         *)
(*                                                                         *)
(* Time is the watchdog's: it wakes once in a period (kWatchEvery), and    *)
(* both of its ages count periods.                                         *)
(***************************************************************************)
EXTENDS Integers, Sequences, FiniteSets

CONSTANTS
  Threads,        \* control threads: JS, the foreground service
  Sources,        \* what plays: the metronome, the mixer
  StallAfter,     \* kStallAfter, in watchdog periods
  IdleGrace,      \* idle_grace_ms_, in watchdog periods
  QueueSize,      \* commands the ring takes before Push fails
  MaxHolders,     \* bound of holders_
  StreamMayDie,   \* may a started stream stop rendering?
  Holder          \* a mark: the device is owed to a holder

ASSUME LifecycleAssumption ==
  /\ StallAfter \in Nat \ {0}
  /\ IdleGrace \in Nat \ {0}
  /\ QueueSize \in Nat
  /\ MaxHolders \in Nat
  /\ StreamMayDie \in BOOLEAN
  /\ Holder \notin Sources

VARIABLES
  intent,      \* metronome_intent_, mixer_intent_
  queue,       \* the command rings: starts and stops not yet applied
  playing,     \* the mirrors: Metronome::is_running, Mixer::is_playing
  holders,     \* holders_
  starters,    \* threads between their play call and their start call
  call,        \* the call in progress
  device,      \* the stream: "off", "rendering", or started and "mute"
  deviceRunning, \* device_running_
  died,        \* stopped_unexpectedly_
  dogPc,       \* the watchdog thread
  dogExit,     \* watchdog_exit_
  rendered,    \* frames_rendered_ has moved since the watchdog looked
  stallAge,    \* StallDetector: periods since last_change_ms_
  idleAge,     \* periods since idle_since_ms, NotIdle when it is not set
  owed         \* history: to whom a successful start promised a device

playVars == <<intent, queue, playing, holders, starters>>
dogVars  == <<dogPc, dogExit, stallAge, idleAge>>
vars == <<playVars, call, device, deviceRunning, died, dogVars, rendered, owed>>

NotIdle == -1

Calls == {"none", "start", "hold", "startJoins", "stop", "stopJoins"}
DogPcs == {"none", "waiting", "ticking", "restarting", "stopping", "ended"}

CallHasLock == call \in {"startJoins", "stopJoins"}
DogHasLock  == dogPc \in {"restarting", "stopping"}

\* Mutant: the idle rule looks at the mirrors alone.
IsQuiet == holders = 0 /\ \A s \in Sources : ~playing[s]

IsIdle == holders = 0 /\ \A s \in Sources : ~intent[s] /\ ~playing[s]

Init ==
  /\ intent = [s \in Sources |-> FALSE]
  /\ queue = << >>
  /\ playing = [s \in Sources |-> FALSE]
  /\ holders = 0
  /\ starters = {}
  /\ call = "none"
  /\ device = "off"
  /\ deviceRunning = FALSE
  /\ died = FALSE
  /\ dogPc = "none"
  /\ dogExit = FALSE
  /\ rendered = FALSE
  /\ stallAge = 0
  /\ idleAge = NotIdle
  /\ owed = {}

-----------------------------------------------------------------------------
(* Control threads. *)

\* SpscRing::Push, whose result the play and stop calls drop.
Push(command) ==
  queue' = IF Len(queue) < QueueSize THEN Append(queue, command) ELSE queue

\* kb_metronome_start, kb_mixer_play: the intent, then the command.
PlayCall(t, s) ==
  /\ call = "none"
  /\ t \notin starters
  /\ intent' = [intent EXCEPT ![s] = TRUE]
  /\ Push([source |-> s, plays |-> TRUE])
  /\ starters' = starters \cup {t}
  /\ UNCHANGED <<playing, holders, call, device, deviceRunning, died, dogVars,
                 rendered, owed>>

\* ... and the kb_engine_start that KitbagCommands.cpp calls after it.
StartCall(t) ==
  /\ call = "none"
  /\ t \in starters
  /\ call' = "start"
  /\ starters' = starters \ {t}
  /\ UNCHANGED <<intent, queue, playing, holders, device, deviceRunning, died,
                 dogVars, rendered, owed>>

\* kb_metronome_stop, kb_mixer_pause: the command, then the intent.
StopPlayCall(s) ==
  /\ call = "none"
  /\ Push([source |-> s, plays |-> FALSE])
  /\ intent' = [intent EXCEPT ![s] = FALSE]
  /\ owed' = owed \ {s}
  /\ UNCHANGED <<playing, holders, starters, call, device, deviceRunning, died,
                 dogVars, rendered>>

HoldCall ==
  /\ call = "none"
  /\ holders < MaxHolders
  /\ call' = "hold"
  /\ UNCHANGED <<playVars, device, deviceRunning, died, dogVars, rendered, owed>>

\* Release and, on a JS reload, ResetHolders: one step under the lock.
CloseHolders(n) ==
  /\ holders' = n
  /\ owed' = IF n = 0 THEN owed \ {Holder} ELSE owed
  /\ UNCHANGED <<intent, queue, playing, starters, call, device, deviceRunning, died,
                 dogVars, rendered>>

\* Mutant: a release with none open is counted.
ReleaseUnchecked ==
  /\ call = "none" /\ ~DogHasLock
  /\ CloseHolders(holders - 1)

ReleaseCall ==
  /\ call = "none" /\ ~DogHasLock
  /\ holders > 0
  /\ CloseHolders(holders - 1)

\* kitbagInstall does not take commandMutex.
ResetHolders ==
  /\ ~CallHasLock /\ ~DogHasLock
  /\ CloseHolders(0)

StopCall ==
  /\ call = "none"
  /\ call' = "stop"
  /\ UNCHANGED <<playVars, device, deviceRunning, died, dogVars, rendered, owed>>

\* To whom a start that returns KB_OK with [open] holders promises a device.
Promised(open) ==
  {s \in Sources : intent[s]} \cup (IF open > 0 THEN {Holder} ELSE {})

\* Start or Hold has the lock; Hold counts its holder first.
StartLocked ==
  /\ call \in {"start", "hold"}
  /\ ~DogHasLock
  /\ holders' = IF call = "hold" THEN holders + 1 ELSE holders
  /\ IF deviceRunning
     THEN /\ call' = "none"
          /\ owed' = owed \cup Promised(holders')
          /\ UNCHANGED dogExit
     ELSE /\ call' = "startJoins"
          /\ dogExit' = TRUE
          /\ UNCHANGED owed
  /\ UNCHANGED <<intent, queue, playing, starters, device, deviceRunning, died,
                 dogPc, rendered, stallAge, idleAge>>

\* WatchOutput begins by taking the frame count and the time.
WatchAfresh ==
  /\ dogPc' = "waiting"
  /\ dogExit' = FALSE
  /\ rendered' = FALSE
  /\ stallAge' = 0
  /\ idleAge' = NotIdle

\* Mutant: StartLocked without StopWatchdog.  The ended thread is still
\* joinable, so StartWatchdog returns without starting one.
StartDeviceUnjoined(started) ==
  /\ call = "startJoins"
  /\ call' = "none"
  /\ device' = started
  /\ deviceRunning' = (started # "off")
  /\ died' = FALSE
  /\ IF started # "off"
     THEN /\ IF dogPc = "none" THEN WatchAfresh ELSE UNCHANGED <<dogVars, rendered>>
          /\ owed' = owed \cup Promised(holders)
     ELSE UNCHANGED <<dogVars, rendered, owed>>
  /\ UNCHANGED playVars

\* StopWatchdog has joined; then the device, its flag and a new watchdog.
StartDevice(started) ==
  /\ call = "startJoins"
  /\ dogPc \in {"none", "ended"}
  /\ call' = "none"
  /\ device' = started
  /\ deviceRunning' = (started # "off")
  /\ died' = FALSE
  /\ IF started # "off"
     THEN /\ WatchAfresh
          /\ owed' = owed \cup Promised(holders)
     ELSE /\ dogPc' = "none"
          /\ UNCHANGED <<dogExit, rendered, stallAge, idleAge, owed>>
  /\ UNCHANGED playVars

\* Engine::Stop has the lock: StopDevice, then StopWatchdog.
StopLocked ==
  /\ call = "stop"
  /\ ~DogHasLock
  /\ call' = "stopJoins"
  /\ device' = "off"
  /\ deviceRunning' = FALSE
  /\ dogExit' = TRUE
  /\ owed' = {}
  /\ UNCHANGED <<playVars, died, dogPc, stallAge, idleAge, rendered>>

StopCallReturns ==
  /\ call = "stopJoins"
  /\ dogPc \in {"none", "ended"}
  /\ call' = "none"
  /\ dogPc' = "none"
  /\ UNCHANGED <<playVars, device, deviceRunning, died, dogExit, stallAge, idleAge,
                 rendered, owed>>

-----------------------------------------------------------------------------
(* The callback, and what may befall its stream. *)

\* The last command queued for a source decides what its mirror says.
Applied(s) ==
  LET own == {i \in 1..Len(queue) : queue[i].source = s}
      last == CHOOSE i \in own : \A j \in own : j <= i
  IN  IF own = {} THEN playing[s] ELSE queue[last].plays

Render ==
  /\ device = "rendering"
  /\ rendered' = TRUE
  /\ playing' = [s \in Sources |-> Applied(s)]
  /\ queue' = << >>
  /\ UNCHANGED <<intent, holders, starters, call, device, deviceRunning, died,
                 dogVars, owed>>

\* A song ends by itself: the mirror falls and the intent stays.
SongEnds(s) ==
  /\ device = "rendering"
  /\ queue = << >>
  /\ playing[s]
  /\ playing' = [playing EXCEPT ![s] = FALSE]
  /\ rendered' = TRUE
  /\ UNCHANGED <<intent, queue, holders, starters, call, device, deviceRunning, died,
                 dogVars, owed>>

\* A stream dies silently, or with a "stopped" notification (OnNotification).
StreamDies(notified) ==
  /\ StreamMayDie
  /\ device = "rendering"
  /\ device' = IF notified THEN "off" ELSE "mute"
  /\ died' = (died \/ notified)
  /\ UNCHANGED <<playVars, call, deviceRunning, dogVars, rendered, owed>>

-----------------------------------------------------------------------------
(* The watchdog thread. *)

DogExits ==
  /\ dogPc = "waiting"
  /\ dogExit
  /\ dogPc' = "ended"
  /\ UNCHANGED <<playVars, call, device, deviceRunning, died, dogExit, stallAge,
                 idleAge, rendered, owed>>

\* A period has passed.  A started stream renders every few milliseconds, so
\* one that renders at all has done so in it.
DogWakes ==
  /\ dogPc = "waiting"
  /\ ~dogExit
  /\ device = "rendering" => rendered
  /\ dogPc' = "ticking"
  /\ UNCHANGED <<playVars, call, device, deviceRunning, died, dogExit, stallAge,
                 idleAge, rendered, owed>>

Older(age, bound) == IF age < bound THEN age + 1 ELSE age

IdleAgeAfter(age) == IF age = NotIdle THEN NotIdle ELSE Older(age, IdleGrace)

\* Mutant: the watchdog waits for lifecycle_mutex_ where the code tries it.
TickWaits == FALSE

\* The try_lock fails: a call has lifecycle_mutex_.  Time passes all the same.
TickUnlocked ==
  /\ dogPc = "ticking"
  /\ CallHasLock
  /\ dogPc' = "waiting"
  /\ stallAge' = Older(stallAge, StallAfter)
  /\ idleAge' = IdleAgeAfter(idleAge)
  /\ UNCHANGED <<playVars, call, device, deviceRunning, died, dogExit, rendered, owed>>

\* Mutant: only the notification reports a dead stream.
StalledNever == FALSE

\* StallDetector::Observe.
Stalled == ~rendered /\ Older(stallAge, StallAfter) = StallAfter

\* Mutant: idle_since_ms is taken anew in every tick.
NextIdleAgeAnew == 0

NextIdleAge == IF idleAge = NotIdle THEN 0 ELSE Older(idleAge, IdleGrace)

\* WatchTick with the lock.
Tick ==
  /\ dogPc = "ticking"
  /\ ~CallHasLock
  /\ died' = FALSE
  /\ rendered' = FALSE
  /\ stallAge' = IF rendered \/ Stalled THEN 0 ELSE Older(stallAge, StallAfter)
  /\ IF died \/ Stalled
     THEN dogPc' = "restarting" /\ idleAge' = NotIdle
     ELSE /\ idleAge' = IF IsIdle THEN NextIdleAge ELSE NotIdle
          /\ dogPc' = IF IsIdle /\ NextIdleAge >= IdleGrace
                        THEN "stopping" ELSE "waiting"
  /\ UNCHANGED <<playVars, call, device, deviceRunning, dogExit, owed>>

\* RestartDevice: the flag follows the outcome, and the stall wait starts over.
Restart(started) ==
  /\ dogPc = "restarting"
  /\ device' = started
  /\ deviceRunning' = (started # "off")
  /\ dogPc' = "waiting"
  /\ rendered' = FALSE
  /\ stallAge' = 0
  /\ owed' = IF started = "off" THEN {} ELSE owed
  /\ UNCHANGED <<playVars, call, died, dogExit, idleAge>>

\* StopDevice; the thread ends and stays joinable.
IdleStop ==
  /\ dogPc = "stopping"
  /\ device' = "off"
  /\ deviceRunning' = FALSE
  /\ dogPc' = "ended"
  /\ UNCHANGED <<playVars, call, died, dogExit, stallAge, idleAge, rendered, owed>>

-----------------------------------------------------------------------------

Outcomes == {"off", "rendering"} \cup (IF StreamMayDie THEN {"mute"} ELSE {})

RestartOutcomes == IF StreamMayDie THEN Outcomes ELSE {"rendering"}

Next ==
  \/ \E t \in Threads, s \in Sources : PlayCall(t, s)
  \/ \E t \in Threads : StartCall(t)
  \/ \E s \in Sources : StopPlayCall(s)
  \/ HoldCall
  \/ ReleaseCall
  \/ ResetHolders
  \/ StopCall
  \/ StartLocked
  \/ \E started \in Outcomes : StartDevice(started)
  \/ StopLocked
  \/ StopCallReturns
  \/ Render
  \/ \E s \in Sources : SongEnds(s)
  \/ \E notified \in BOOLEAN : StreamDies(notified)
  \/ DogExits
  \/ DogWakes
  \/ TickUnlocked
  \/ Tick
  \/ \E started \in RestartOutcomes : Restart(started)
  \/ IdleStop

Spec == Init /\ [][Next]_vars
(***************************************************************************)
(* Fairness.  The callback runs while the device is started, the watchdog  *)
(* thread is scheduled, and a call in progress goes on; no thread is ever  *)
(* obliged to make a call.  Tick and the two Locked steps need the strong  *)
(* form: each waits for a mutex the other side holds only for a moment.    *)
(***************************************************************************)
Fairness ==
  /\ WF_vars(Render)
  /\ WF_vars(DogExits) /\ WF_vars(DogWakes) /\ WF_vars(TickUnlocked)
  /\ SF_vars(Tick)
  /\ WF_vars(\E started \in RestartOutcomes : Restart(started))
  /\ WF_vars(IdleStop)
  /\ SF_vars(StartLocked) /\ SF_vars(StopLocked)
  /\ WF_vars(\E started \in Outcomes : StartDevice(started))
  /\ WF_vars(StopCallReturns)

FairSpec == Spec /\ Fairness

-----------------------------------------------------------------------------

\* Every variable holds a value of its type: no holder is closed that was not
\* open, and no age outgrows the wait it measures.
TypeOK ==
  /\ intent \in [Sources -> BOOLEAN]
  /\ queue \in Seq([source : Sources, plays : BOOLEAN])
  /\ Len(queue) <= QueueSize
  /\ playing \in [Sources -> BOOLEAN]
  /\ holders \in 0..MaxHolders
  /\ starters \subseteq Threads
  /\ call \in Calls
  /\ device \in {"off", "rendering", "mute"}
  /\ deviceRunning \in BOOLEAN
  /\ died \in BOOLEAN
  /\ dogPc \in DogPcs
  /\ dogExit \in BOOLEAN
  /\ rendered \in BOOLEAN
  /\ stallAge \in 0..StallAfter
  /\ idleAge \in {NotIdle} \cup 0..IdleGrace
  /\ owed \subseteq Sources \cup {Holder}

\* kitbag_engine_hold_api.h: "an idle stop cannot fall between the two and
\* leave a queued start silent".  Once a start has returned KB_OK to a play or
\* a holder, the device stays started until that play is stopped, the holder
\* closed, the engine stopped or a restart fails: no idle stop takes it away.
NoSilentStart == owed # {} => deviceRunning

\* A started device has a watchdog: after an idle stop has ended the thread and
\* left it joinable, the next start joins it and makes another.
StartedIsWatched ==
  deviceRunning => dogPc \notin {"none", "ended"} /\ ~dogExit

\* "The watchdog only try-locks, so Stop can join it while holding" (engine.h):
\* no control call waits for ever, whatever the watchdog is doing.
CallsReturn == (call # "none") ~> (call = "none")

\* "The output device stops on its own once it has been idle for a short grace"
\* (kitbag_engine_hold_api.h): a device is not left running with nothing held,
\* intended or playing.
IdleDeviceStops == []<>~(deviceRunning /\ IsIdle)

\* ... and is not, as long as its stream neither dies nor needs a restart.
HealthyIdleDeviceStops ==
  <>[](device # "mute" /\ dogPc # "restarting") => IdleDeviceStops

\* "Restarts the device when its stream dies while the engine should be
\* playing" (engine.h): a dead stream does not stay dead unnoticed.
DeadStreamRestarted ==
  (deviceRunning /\ device # "rendering") ~>
     (device = "rendering" \/ dogPc = "restarting" \/ ~deviceRunning)

=============================================================================
