# Kitbag: TLA+ models, model checks and proofs

Kitbag is a musicians' app: a metronome, a stem player, a song library and a
tuner on one realtime audio engine. The C++ engine
(`src/native/audio_core/src`, written below as `core/`) renders on an audio
callback that may not lock, allocate or free; Kotlin and TypeScript above it
decide what it renders and keep what the user made. Two things are hard to get
right: in the engine, where the callback, the app thread, the read-ahead threads
and the watchdog meet; above it, what an answer does when the screen, the song or
the row it was asked for is gone. This directory models both: TLA+ modules, TLC
runs over them, and TLAPS proofs of the results that matter most. `PROJECT.json`
names the source lines every definition translates.

    tlc -config MCMixer.cfg MCMixer                  one run
    tlapm StageProofs.tla                            one proof

## 1. The system

### 1.1 Threads

| thread | runs | may block |
|---|---|---|
| control | every call of `kb_*`: the JS module thread and the Android foreground service, one call at a time under `commandMutex` (`packages/core-native/cpp/KitbagCommands.cpp`) | yes |
| callback | `Engine::DataCallback` and all that renders: metronome, mixer, player | never |
| watchdog | `Engine::WatchLoop`, one for each device start | only on its own condition |
| read-ahead | `AudioSource::RefillLoop`, one for each playing stem | yes |
| tuner analysis | `Tuner::AnalysisLoop` | yes |
| JS | the stores of `core-state` and the screens, one callback at a time, with interleavings at each `await` | no |
| UI | gestures and frame callbacks (worklets), which post to JS | no |
| Android main and workers | service, cards, route watcher, analysis worker | varies |
| database | one queue of calls, each served whole (`core-db/src/transaction.ts`) | yes |

They interact by: bulk payloads published by atomic pointer (`RtPublisher`), small
commands in a single-producer ring (`SpscRing`), frames in a bulk ring
(`SpscBulkRing`), mirrors in atomics or seqlocks, two mutexes (`commandMutex`,
`lifecycle_mutex_`), and above the engine by promises, events, intents, store
subscriptions and rows of the database. Kotlin and the app outlive one another:
the process may die at any step, while the database, the files and Android's
work queue stay.

### 1.2 Components

| component | state | operations | what makes it right | module |
|---|---|---|---|---|
| Realtime publisher, `core/rt/rt_publisher.h` | active pointer, retire list with frame dates, generation | Publish, Collect, ReclaimAll, Get | no payload freed under the callback, none leaked or freed twice, no swap missed | RtPublisher |
| Command ring, `core/rt/spsc_ring.h` | slots, head, tail | Push, Free, Pop | a bounded queue; no slot read while it is written | SpscRing, BoundedFifo |
| Engine lifecycle, `core/engine.cpp` | device, `device_running_`, intents, holders, watchdog, idle age, stall age | Start, Stop, Hold, Release, WatchTick, RestartDevice, idle stop | no start silenced, every stream watched, calls return, idle devices stop, dead ones restart | EngineLifecycle |
| Mixer transport, `core/mixer/`, `core/media/streaming_track.cpp` | per stem source with epoch and layout, plan, head, loop | load, unload, play, pause, stop, seek, loop; adopt, align, mix, advance | the stems stay on one song frame; none is stranded; the head reported is the head played | MixerTransport |
| Mixer hand-over, `core/mixer/mixer_prime.cpp`, `mixer_handover.cpp` | two banks of key buses, plan with verdict, engagement | SetRate, retries, retraction; judge, switch, engage, disengage | the bank that plays is whole; the speed asked for is in effect or refused | HandOver |
| Audio source, `core/media/audio_source.cpp` | ring, two end flags, running flag, condition | Start, Stop, Seek, Read, is_at_end, refill | frames in order, the end is real, Stop returns | AudioSource |
| Mixer sessions, `core-state/src/stemPlayer`, `songPlayer` | session, claim, engine hold, loop, click, mix | open, close, load, loop, click, mix, rename, leave | one screen's answers never act in another's session | MixerSession |
| Lyric times, `core-state/src/stemPlayer/retime*.ts` | take, save in flight, queue of rates | enter, tap, shift, save, reset, leave | times read back as tapped; the speed is the user's again | LyricRetime |
| Metronome settings, `core-state/src/metronome` | tempo, meter, accents, poly, ramp, mute, sounds, count-in | all setters, load, save, the editor | the engine plays what is shown; a loaded song is clean | MetronomeSettings |
| Metronome screen, `tool-metronome/src/screen` | taps, swipe, sheets, hint | swipe, tap, nudge, type, Back | one series of taps, travel answered, Back takes the top | MetronomeScreen |
| Practice, `core-state/src/practice` | session, pending summaries, saves | start, stop, save, discard | the time that ran is counted once | PracticeSessions |
| Card and transport sync, `PlaybackService.kt`, `app-shell/src/runtime/transport*.ts` | routing, service, pending start, app's picture | show, hide, press, event, destroy | the card tells what runs | TransportCard |
| Song library, `core-state/src/library` | songs, setlists, items, what is loaded | some twenty commands, load, leave, Undo | screens show what is stored; the set on stage is that of the song that plays | SongLibrary |
| Song analysis, `AnalysisRun.kt`, `songLibrary/store.ts` | row, work, marker, result | import, run, deliver, acknowledge, delete | none waits for ever, none is given up unfairly | SongAnalysis |
| Stem bundles, `songLibrary/stemBundleImport.ts`, `stemFolderSweep.ts` | rows, folders | import, replace, rename, delete, sweep | rows and folders come and go together | StemLibrary |
| Tuner, `core-state/src/tuner`, `tool-tuner` | microphone, queue, tuning, hops, locks | open, leave, settings, hops | the microphone is open for the screen; a string is tuned by its own lock | Tuner, CustomTunings, TunerReadout |
| Rig, `core-state/src/rig` | click generations, run, offsets, accents | calibrate, step, clear, boot | what is stored was measured there; the offset is the output's | RigCalibration, RigRoutes |
| Home and tools, `core-state/src/home`, `tools` | arrangement, switches, last tool | drag, resize, hide, switch | every tool once; one that is off is silent | HomeTools |
| Settings, `app-shell/src/settings`, `core-state/src/notifications` | storage snapshot, permission, window flag, theme | refresh, remove, ask, reapply | what is told is so | StorageSheet, AppSettings |
| Sheets, `core-design` | stack, drag, held keys | open, dismiss, Back, hold | Back finds the top; nothing repeats unheld | Sheets |
| Backup and restore, `core-db/src/backup*.ts`, `core-state/src/backup` | plan, choices, requests | export, parse, plan, apply | what was reviewed is what is restored | Backup |
| Database, `core-db/src/migrate.ts` | version, tables | open, upgrade | no row is lost | Migrations |
| Engine's metronome, rig click, player, tuner; DSP; readers; C API, JNI; route watcher; look and layout; tools; vendored code | | | | no, see 7 |

## 2. The modules

Integers count frames in units small enough for TLC (a block is one to three),
periods of the watchdog, or units of time named in the module. History variables,
which the code does not have, are marked `history` where they are declared. Every
bound is a constant whose comment says "bound".

### 2.1 The engine

**RtPublisher.** The single writer's Publish is four steps, because three reads
are stale when used: the API call reads `is_running()` and passes it by value
(`EnterCall`), `Collect` reads the clock and frees what has aged
(`Collect`), `active_.exchange` swaps (`Publish`, or `PublishNothing` for a null
payload). The callback's block is `BlockBegin`, any number of `Get`, `BlockEnd`,
which advances the clock. Start, Stop and the watchdog's restart and idle stop
set the device and the flag in the code's order. Addresses are
recycled by the allocator; generations are not.

**SpscRing / BoundedFifo.** Push and Pop at the grain of each index load, slot
copy and index store, with `Free()` as a reservation. `BoundedFifo` is what the
rest of the engine believes the ring to be: a sequence, a push that fails when
full, a pop that fails when empty. The mapping takes the sequence to be the
slots from tail to head.

**EngineLifecycle.** Calls hold `commandMutex`, so one is in progress at a time
(`call`), but a play is two calls and another thread may act between them
(`starters`). `lifecycle_mutex_` is held by a call from the moment it has it and
by the watchdog throughout a tick, which only try-locks. The callback drains the
command queue into the mirrors. `owed` is history: who was told `KB_OK` and has
not since stopped.

**MixerTransport.** Seeks and loops stage each stem's source off the callback,
commit them track by track, then publish one plan; between two commits the
callback runs. A source carries an epoch and a layout. The callback drains
commands, adopts the newest plan (jump or keep), aligns a source that came early,
mixes track after track, and advances. `heard` is history: what each stem played
in the block, and from which source; so is `leapt`, the stems whose source was
read two epochs before its own, because two loop changes landed in one block. Starvation is real here: a
source holds whatever its read-ahead thread has buffered.

**HandOver.** What a change of speed does while the song plays: prime a bank,
publish its slots one by one into the bank not in use, publish a plan, wait for
the callback's verdict, adopt, try further ahead, or fall back on a primed jump;
and what a seek, a keep, play and pause do in the middle of it. `mishaps` is
history: unreadable stem, stall past the verdict's timeout, retraction.

**AudioSource.** The read-ahead thread between its look at `running_` and its
sleep, the two end flags on either side of the final write, the callback's copy
and its count of underruns, Stop's unlocked store with its notify and join.
The device may take the source away and give it back at any time.

`MixerTransport`, `HandOver` and `AudioSource` are three cuts of one playback path
and take one another's results as given: MixerTransport's sources are
AudioSource's queues, AudioSource's ring is SpscRing's queue, HandOver's song is
MixerTransport's at 1.0x. Plans, sources and buses all travel through
RtPublisher, whose theorem lets the other modules load a payload as one step.

### 2.2 The players

**MixerSession.** Every action is one JavaScript callback: a layout effect of a
screen, a tap, a timer, or the continuation of an `await`. Commands take effect in
the order they are called and their answers wait in `answers`; database calls
wait in `db.queue` and end in their own time. A claim of the mixer closes the
other player's session in the middle of whatever it awaits. `user` is history:
what the user last set.

**LyricRetime.** The take in the store, the save on its way to the database and
the queue of rate changes run against each other while songs are opened and
closed. `Answered` is the continuation of the save; `queue` chains the steps of
`retimeSpeed`; `orderedBetweenPins` spreads untapped lines between tapped ones.

### 2.3 The stage

**MetronomeSettings** holds both sides of the settings: the store with every
setter's clamping, and the engine's state as its commands leave it. Loading a song
is the code's chain of setters, one action. **MetronomeScreen** is the touch side:
a swipe posts its steps from the UI thread, all else is on JavaScript's. It starts
from `currentBpm`, the tempo that thread last drew, on a render or on a frame of the
engine (`useMetronomeFrame`): a second flick over the first one's steps, or one while a
ramp runs, starts behind the store. `SwipeAnswers` therefore speaks of a swipe from its
first step on, and before it only if the tempo drawn at its start was the store's.
**PracticeSessions** follows the running flag and the loaded song; the notification
changes both with a clock of its own; inserts fail or come late. **TransportCard**
is three processes: the app, the service on Android's main thread with its queue
of starts, and events back; Android destroys the service some time after it asked
to stop, unless a later start is on its way.

**Tuner** is one queue of tasks that wait for each other, the permission's answer,
the trips to the background, the engine's ring and the hops that come back.
**CustomTunings** is the table and the tuning in use, answers coming later.
**TunerReadout** is the arithmetic from hop to frame in parts of a cent, and the
dwell before anything is told. **RigCalibration** and **RigRoutes** share nothing but
the output: the first is the run with the click it arms under a generation, the
second the offsets, accents and volume with their delayed saves. **AppSettings** is
what the phone may change behind the app's back. **Sheets** is the one host all sheets
are drawn in, and the step keys.

### 2.4 The library

**SongLibrary** is a line of repository calls, each served whole: a command is its
write, the reads of a refresh, the landing of the snapshot, and what the screen
waited for. A refresh carries no ticket, so `ShownIsStored` has an exception: one
begun before two setlists were deleted reads longer than those the deletions ask for,
lands last and shows them (`turns` is history: which refresh is on the screens).
**SongAnalysis** spans table, work queue, marker and result files, with
the process dying at any step (`Die`) and with failures: of a call to the database,
of writing the marker or the result, of telling it, of deleting it. A result that was
not stored is not acknowledged and waits, with its row, for the next start
(`ServeFails`); `missed` and `unstored` are history: the songs and results that a
failure left so in this life of the app, which are the exceptions of
`AnalysisAttended`. **StemLibrary** has flows of several
awaits each over rows and folders, with failures and deaths between. **HomeTools**,
**StorageSheet**: preferences written behind a store and read at the next start;
requests run one after another of which the latest is shown. **Backup** has plans made
of a database that is edited before they are applied. **Migrations** has the tables as
sets of columns and rows, with SQLite's foreign keys (external) and, of every
upgrade, the statements that change tables, columns and rows; those about indexes,
triggers and `sqlite_sequence` are left out.

### 2.5 Modules that compose them for TLC

Components that run in one process and check against one another are checked side
by side: `MCEngine`, `MCMixer`, `MCSettles`, `MCStage` and `MCLibrary` each hold
several modules, of which a behaviour runs the one that its first state chooses in
`part`. `MCMixer` EXTENDs RtPublisher, HandOver and MixerSession, `MCStage` SpscRing,
TunerReadout, RigRoutes, AppSettings, Sheets and TransportCard, and each other run one module: these
keep their own variables, and stay in an initial state where they do not run, so their
properties are checked as their modules state them. The variables `v1, v2, ...`
stand for those of whichever other runs, and are 0 where it has fewer; a property
of these is a conjunction of the parts' properties, `part = "p" => ...`, each
defined and explained in its own module. The `part` never changes, so the states of
a run are the disjoint union of the parts' and nothing of one part hides another.

Where a component is proved, its theorem is about the component's own specification,
with the property that the run checks. Where the run has it as an instance instead,
that is an instance of the module of its proofs, so that its lemmas hold of the run's
own instance too: `EngineProofs` and `LibraryProofs` EXTEND the run's module and prove
its properties from those lemmas.

## 3. The runs

Every conjunct of every property, the type invariants apart, is refuted when a plausible defect is put into the
code it is about: the definitions named in the modules after a `Mutant` comment
are those defects, beside the definition they alter. `PROJECT.json` lists one
for each property of each run.

| run | parts | question | result |
|---|---|---|---|
| engine | EngineLifecycle, MixerTransport twice | Is a play or a holder that was told OK ever silenced, a stream ever unwatched? Do stems stay together through seeks, loops, loads and failed rebuilds? | holds |
| lifecycle_live | EngineLifecycle | Do calls return, dead streams restart, healthy idle devices stop? | holds |
| mixer | RtPublisher, HandOver, MixerSession, LyricRetime twice | Freed under a reader, leaked, freed twice, swap missed, flag lying? Is the bank that plays whole, the head exact, the speed in effect? Do displaced players leave anything behind? Do tapped times survive? | holds |
| settles | AudioSource, MixerSession | Frames in order, the end real, no false underrun, Stop returns, the file read to its end; no player loads for ever | holds |
| stage | SpscRing, MetronomeSettings, MetronomeScreen, PracticeSessions, TransportCard, Tuner twice, CustomTunings, TunerReadout, RigCalibration twice, RigRoutes, AppSettings, Sheets | Is the ring a queue? Does each tool tell, and do, what was asked of it? | holds |
| library | SongLibrary twice, SongAnalysis twice, StemLibrary twice, HomeTools, StorageSheet, Backup, Migrations | Is what is stored what was shown, over failures, deaths and versions? | holds |
| publisher_failed_restart | RtPublisher | Does `device_running_` cover the callback after a failed restart? | finding 1 |
| lifecycle_dead_idle | EngineLifecycle | Does an idle device with a dead stream stop? | finding 2 |
| handover_paused_loop | HandOver | Is the speed in effect after a loop change while paused? | finding 3 |
| song_names | MixerSession | Is a name stored when the player is left mid-edit? | finding 4 |
| stuck_card | TransportCard | Can a card be left with nothing behind it? | finding 5 |
| song_poly | MetronomeSettings | Is a song just loaded ever marked unsaved? | finding 6 |

**Bounds and why they suffice.**
*publisher*: three addresses (one active, one retired, one free to be recycled),
three generations (a recycled address needs two), a clock of six units against a
grace of two, and blocks of one or two units so that a block may straddle the
grace's end. *ring*: four slots hold three items, so the ring fills, empties and
wraps with room for a reservation of two. *lifecycle*: two threads (the JS
module and the service) and two sources, a ring of two so that a push can fail,
stall wait and idle grace in the code's order (1500 ms before 2000 ms) and
ratio (3:4). The liveness runs have one thread and one source, since symmetry
is unsound for them. *transport*: two stems of unequal length, so that one ends
inside a block; a ring of two blocks, so that a stem may leap over a layout, with three calls, since a plan overtaken, a call built on it and a
third that fails need three; and four calls with one block's ring, one place to seek to and one loop. *handover*: two slots, so that a bank can be half
published; two attempts, so that both the retry and the fall-back occur; three calls (five, without
mishaps, for the paused loop). *source*: a file of five frames, a ring of four, chunks of
half the ring, reads of three: the ring wraps, a read comes up short, and the
file ends inside a chunk or at the end of one depending on the seek.
*session*: two screens of one player and one of the other, which is every pair that can
displace one another; three sessions with one tap, so that an answer may outlive two, and two
with two (`MaxOpens`, `MaxTaps`, and `MaxWork` for both together).
*retime*: one session with two takes, so that an answer meets a newer take, and
two sessions with three speeds, so that a restore meets another song's.
*settings*: one to three of everything that is counted, so that each bound is met from
both sides. *screen*: tempos of two to five and four touches and moves: a swipe of three moves
with a reversal and a bound, or a second flick over the first one's steps; a metronome
that runs has had one of the four. *practice*: one insert
refused and time enough for two sessions. *card*: a start, a stop and a second start before the
first service is gone need five taps. *tuner*: a ring of one against two settings (a refusal and
its retry), and four hops with two tunings of unequal length (a lock that belongs to the
tuning before). *tunings*: two rows with two calls under way. *calibration*: two
outputs, one change, one failure. *rig*: two outputs with two changes, two counts and
volumes, one failed job, one death, three jobs at a time. *songs*: two songs in one set and an empty set, two commands and
one failure: what one load does to another needs no third; and two empty
sets without a song and three commands, for the refresh that two deletions overtake.
*analysis*: one song; two taps with a death or a failure, and one tap with three of
these, among them the two deaths that `MAX_INTERRUPTED_ATTEMPTS` counts and a failure. *stems*: one job
with two versions and two flows at a time. *home*: three tools, of which one was
unknown to the version that stored the arrangement. *storage*: two reads about a removal.
*backup*: the smallest library with a link and a setlist item of each kind a restore can carry,
cut or find gone. *database*: every version whose file differs, two faults.

Deadlock is checked wherever the system must go on: `lifecycle_live`, `lifecycle_dead_idle`, the publisher's and the
hand-over's runs, and `engine`, `mixer` and `settles`, where the parts of
the players alone may rest by a stuttering disjunct. `stage` and `library` (and the runs of their
findings) say `CHECK_DEADLOCK FALSE`: a screen that nobody touches rests, and so
does the model at its bounds.

## 4. Fairness

*EngineLifecycle.* Weak fairness for the callback while the stream renders, for
the watchdog's wake-up (a timed wait) and for the steps of a call in progress.
Strong fairness for `Tick`, `StartLocked` and `StopLocked`: each waits for a
mutex that the other side holds for a moment at a time and, with weak fairness
alone, might always look at the wrong moment. A control thread owes no call.
A rendering stream moves the clock, but nothing keeps a stream rendering: it may
die at any time, and a restart may fail or give a dead one. That is why only
`HealthyIdleDeviceStops`, and not `IdleDeviceStops`, holds (finding 2).

*AudioSource.* Weak fairness for the read-ahead thread, a Stop in progress and the
callback's Read in progress; strong fairness for the decoder delivering, because a
reader does not fail for ever. No fairness for Start, Seek, the device or the app.

*MixerSession.* Weak fairness for the continuation of the oldest answer and for
each of the database's calls: a native thread answers what it was called for, and
the transactor serves its queue. None for the user, the screens or the engine's events.

`MCSettles` states each part's fairness under that part. No other run has a liveness
property.

## 5. What is proved

TLAPS proves these for every value of the constants, from the assumptions stated.
Where an assumption is a definition (`TransportConstants`, `HandOverConstants`) the
module states it next to its CONSTANTS and the theorem has it as a hypothesis, so
that an instance must show it of its own values (in `MCMixer` TLC evaluates it).

* `HandOverProofs`, of RtPublisher: `TypeCorrect`, `RetireListSound` (no leak, no
  double free), `SwapsAlwaysSeen` without hypotheses; `FlagIsHonest` if a restart
  does not fail; `NeverFreedUnderAReader` if also the publisher is not stalled
  between its clock reading and its swap for longer than the grace
  (`StallBound <= Grace`). The invariant: a retired payload that the
  callback holds was swapped out at most a grace before the clock's present value
  within this block, hence its date has not aged; an app thread that saw "not
  running" is in a call during which no block runs; `ReclaimAll` runs only then.
  The two hypotheses are exact: without the first the flag lies (finding 1), and a
  publisher preempted for longer than the grace, one second at 48 kHz by
  `kReclaimGraceFrames`, between `clock.Now()` and `exchange` dates the payload so
  far back that the next `Collect` frees it under the callback.
* `EngineProofs`, of SpscRing: `SlotsNeverShared` and `ImplementsBoundedFifo`, the ring
  implements the queue step by step. The invariant places the slots from the
  consumer's tail to the producer's head in the queue, and says that the indices each
  side loaded long ago err on the safe side.
* `EngineProofs`, of EngineLifecycle: `QueuedStartNeverSilent` and
  `StartedAlwaysWatched`. The invariant: what is owed is held or intended, thus never
  idle; whoever is past the idle test holds the mutex; the watchdog is joined before
  another is made.
* `EngineProofs`, of AudioSource: `SourceTypeCorrect`, `FramesInOrder`, `EndNeverEarly` and
  `LastBlockNoUnderrun`, if the ring is at least as large as was asked for
  (`RingFrames <= RingSize`, which rounding up to a power of two gives). The
  invariant accounts for every frame between the reader and the callback: what the
  reader has passed is what was delivered, then the ring, then the chunk the thread
  carries, for which the ring has kept room since the thread looked, because only
  the callback touched it; past the end the thread reads nothing, so what
  `is_at_end` saw stays true; and a thread that knows of the end has raised
  `input_exhausted_`, except in the one step in which its chunk is still to come.
* `MixerTransportProofs`: `TransportTypes`, `HeadIsExact` (the head the app thread
  computes is the callback's once the newest plan is adopted), `NoStemIsStranded`,
  `NoStemIsAhead`, `StemsAreHeardAtTheHead`, and the action property `KeepsMoveNothing`,
  for any number of stems of any lengths, any block, ring, seeks and loops
  (`TransportConstants`: tracks are 1..n, numbers are naturals, no loop is empty).
  An epoch is the number of a plan, so the callback's epoch tells which plan it has
  adopted (`Versions`); a source bears the stamp of the newest plan or, once its own
  track is committed, of the plan on its way (`Stamps`); every plan's head is
  counted from the transport, so a plan adopted late starts where an early one would
  be by now (`Heads`); a source has been read at most a block past that head
  (`Reach`), which makes those of another epoch wait or align and never play; what
  was heard in a block follows (`Hearing`). The arithmetic of loops rests on a few
  lemmas about `SongFrameAt`: the song frame after n more frames, inside a loop and
  across its end.
* `HandOverProofs`, of HandOver: `HandOverTypes`, `HeadIsExact`, `NoHandOverIsPassed`,
  `NoBankIsFreedAsItPlays`, `AStallLeavesAWholeBank`, `TheSpeedIsPlayed` and
  `ARefusalLeavesItPlain`, and `HandOversAlwaysLand` of all of them, for any slots, attempts, lag, lead and block
  (`HandOverConstants`: there is a slot, numbers are naturals). The invariant says
  what a call has in hand at each of its steps (`PlanInHand`, `PlanIsOut`,
  `BankInHand`, `Stalls`), that a plan on its way to the callback carries the head
  the callback will have (`Loading`, `Heads`, `Passing`), and which bank sounds, or
  is to sound, between any two of those steps: the one in use, or the one the newest
  plan names, according to the verdict alone (`Sounds`). A bank is rebuilt only while
  it is neither. `TheSpeedIsPlayed` and `ARefusalLeavesItPlain` need one more account, of
  what the song is played at between the calls (`Speeds`, `Slowed`, `Engages`, `Plained`).
  The properties' own exceptions (`mishaps`, `KeepWhilePaused`) are in the theorems: they
  are findings 3 and the first of the notes in 6.
* `MixerSessionProofs`: `SessionInvariant`, and from it
  `TheMixerHasOneOwner` (`MixerHasOneOwner`), for any screens, stems, loops and names
  and any number of sessions and taps, if no screen and no loop bears the name of
  "none" (`SessionAssumption`). The properties are about states, the reasons for
  them are under way: the invariant says what each answer still to come will find if
  its session is on (`Finds`), that a loading song's call is the last of the answers
  and those of earlier sessions are in before a song is ready, that a ready song has
  one loop call and one click call at most (`Ordered`), and that a song is read after
  what was to be saved of the one before (`Reads`), which is why it opens with its
  mix (`Saved`). The rest is who has what: the claim tells the open player
  (`Owned`), a live hold is one screen's (`Held`), and tracks, loop, click and level
  are the open player's or nobody's (`Tracks`, `LoopKept`, `ClickKept`, `LevelKept`).
  A loop whose clear failed is the exception in the properties too (`stray`).
* `StemLibraryProofs`: `LibraryTypes`, `SongsKeepTheirFiles`, `SweepsFreeTheRest`,
  `TimesStandByTheirLyrics` and the action property `NamesStay`, for any bundles,
  lyrics, flows and bounds, without hypotheses. Rows are told apart by id and by
  bundle (`RowsTold`); times being saved are for the lyrics of the row they were
  begun on (`TimesMeant`); a folder is one row's, or one unfinished copy's, or is to
  be deleted, and never two of these (`FilesOwned`), unless an import took a name
  again that somebody was still to delete (`crossed`, which the code's own leftovers make
  possible); and every folder on disk is answered for by a row, a flow or a failed
  deletion, or is among what the sweep has still to look at (`FoldersAnswered`).
* `SongAnalysisProofs`: `AnalysisInvariant`, and from it `SongsAreAttended`,
  `SongsAreBlamedFairly` and the action property `GridsAreKept`, for any finite number
  of songs and any number of taps, deaths and failures, if no song bears the name of "none"
  (`AnalysisConstants`). Three stores outlive the process and the ways between them do
  not: a stored result is on one of the ways to the table or the app has still to read
  the files, or a failure of this life of the app kept the file for the next
  (`ResultsHeardOf`); a song that shows it is being analysed has its work or
  its run, or its result is on the way, or the call that made it so has still to be
  followed by its work, or a failure took these from it until the next start
  (`AnalyzingAttended`); a claim comes after every stored result
  was received (`StartInOrder`); a marker counts the runs the process died in and the
  one there is (`MarkersCount`); and no import finds a row (`ImportsAreNew`), without
  which an insertion would take a grid.
* `LibraryProofs`, of StorageSheet: `TheSectionTells` (`StorageTells`), for any rows,
  requests, faults and visits, without hypotheses. Who asks last in a visit is who is
  shown (`LatestIsShown`); the snapshot that is to be shown next offers no row that is
  gone and agrees about what failed (`SnapshotIsSo`), also while rows are being
  removed, when the snapshot before it does not.

* `StageProofs`, of RigRoutes: `TheRigFollowsTheOutput` (`RigFollowsOutput`), for any
  outputs, offsets, counts and volumes, if no output bears the name of "none" and counts
  are naturals (`RigAssumption`). What the database will hold is said of the jobs it has
  still to do (`WillHold`): of an output's jobs, or of a preference's, the last one
  decides, and what the table holds where there is none. `KeptInv` states that this is
  what the app shows, but for the output whose step has not settled (`PendingInv`: that
  is the output in use, and what waits is what is stored) and until a job fails. It holds
  from the start because the list is the first job and no output's job comes before
  its answer (`ListInv`), which is why that answer overwrites nothing.
* `StageProofs`, of TunerReadout: `TheReadoutAgrees` (`ReadoutAgrees`), for any errors in
  integers, any unit above 0, dwell above 0, and a window less wide than the dial
  (`ReadoutAssumption`; with a dial no wider than the window a note out of tune would be
  drawn in tune). What is drawn is of one hop because rounding is monotone and the
  needle is cut at the dial, which lies past the window (`NeedleSide`). `DwellInv` counts
  how long a slice has stood against what the frame callback has told; `FlightInv` says
  which of the slices in flight to React arrives last.
* `StageProofs`, of AppSettings: `ThePhoneIsFollowed` (`PhoneIsFollowed`), without
  hypotheses. The offer is a check under way, then a prompt, then over, and while it is
  either there is no answer yet nor a request that would bring one (`OfferInv`); the
  row of a screen in front has been refreshed (`RowInv`); and a flag is never set for
  a window that is not kept (`WindowInv`).
* `StageProofs`, of Sheets: `SheetsAlwaysObey` (`SheetsObey`), for any sheets, keys and
  heights, if no sheet bears the name of "none" (`SheetAssumption`). No sheet lies in
  the stack twice, and only mounted ones are visible (`StackInv`).
* `StageProofs`, of TransportCard: `TheCardTells` (`CardTells`), for any set of tempos, if
  no time the clock reaches is the number that stands for none (`CardAssumption`).
  While neither has acted before it heard the other, one side speaks at a time: messages
  are on their way to the service or events to the app, never both (`Following`). What a
  queue says last of a kind is `Says`, with lemmas on how it changes as the queue is
  added to and served. The last card in the queue of starts is the one the app believes in,
  and no hide is on its way to a paused one, since a pause is made on a card the service has
  (`Heard`); with none on its way the service holds it already (`ServiceTells`). The last event on its way
  tells what service and engine do, and a stop is never followed by another
  (`EngineTold`, `InOrder`), which is why an event that drops the app's card drops
  one the service has dropped. `bothActed` and `unsent` are hypotheses of the property: two sides that act
  unheard undo one another, and finding 5 is what `unsent` leaves out.

The theorems that are about a run's own module: `EngineProofs` `TheSongIsAtTheHead` and
`ALoopChangeMovesNothing`, `LibraryProofs` `StemFilesAreKept` and
`AnAnalysisComesToAnEnd`, the last of both instances of SongAnalysis. They add nothing to those of the components but that what TLC
checks there is what is proved here, each part by itself, `part` being constant.

TLC checked each of these invariants on its run's instances before it was proved.

Only model-checked: all liveness (fairness and ENABLED are outside the prover's
reach), LyricRetime, and of the modules of 2.3 and 2.4 the metronome's, the practice
sessions, the tuner and its tunings, the calibration, the song library, home,
the backup and the migrations; their bounds are those of section 3. No module uses RECURSIVE operators.

## 6. Findings

1. `engine.cpp:280`: after a failed restart the next one starts the device before
   it stores `device_running_`, so a publisher can conclude "no reader" while the
   callback runs, which `engine.cpp:80` says cannot happen.
2. `engine.cpp:257`: a stall resets the idle grace, and the stall wait is the
   shorter: an idle device whose stream is dead is restarted for ever.
3. `mixer_prime.cpp:28`: a loop set or cleared while paused drops a pending
   hand-over and does not make it anew: the song then plays at 1.0x although its
   speed reads slower.
4. `screenHold.ts:27` against `StemNameEditor.tsx:74`: the screen releases its hold in
   a layout cleanup, which React runs before that of the editor inside it: the session
   is closed when the name is saved, and the name typed is lost.
5. `PlaybackService.kt:54` against its line 393: `onDestroy` forgets a start that crossed the
   service's own stop; a hide sent then is dropped and the start's card stays.
6. `patternActions.ts:86` against `presetMapping.test.ts:130`: a stored song whose poly count is 0
   keeps the polyrhythm of the song before, and is marked unsaved as soon as it is loaded.

Noted without a run. `mixer_prime.cpp:213`: a retraction frees the bank that a
callback which woke late has just switched to, and the song is silent until the next
plan (`BankPlaysUnretracted` in HandOver excludes just that). `mixer.cpp:351` against
`SPEC.md:1018`: while a keep's sources are committed one by one, a block across the new loop's end
has one stem turn and the next play on (`HeardAtTheHead` in MixerTransport
excludes just that). Two loop changes that land in one block leave a stem which had been
read ahead in the old layout ahead of the head in the new one: it plays on from there and
is then silent until the head catches up, against `SPEC.md:1013` ("sample-locked,
through seek/loop"; `NoStemAhead` excludes the stems in `leapt`). `Relayout` drops what `PrimeNow` returns after a keep, so a
failed prime there goes unreported; a Read that drains the ring between the last
full chunk and the discovery of the end is counted as an underrun
(`audio_source.cpp:99`); a loop set in the song's last block lets a stem
play one block past its end. A refresh begun before two setlists were deleted may show
them again until the next one (`library/store.ts:357` takes no ticket; `ShownIsStored`
excludes just that). A swipe begun over steps still on their way starts from the tempo
last drawn and takes the store's back to it (`useTempoSwipe.ts:47`; `SwipeAnswers`
excludes just that). A run that can write neither its marker nor its result ends
without the app hearing of it, and its song shows that it is being analysed until the
next start (`AnalysisStore.kt:11`; `AnalysisAttended` excludes what failed so).

## 7. Not modelled, and why

Signal processing (beat tracking, pitch, stretch, FFT, resampling, decoding) is
numeric and has no interleaving. The engine's own metronome, rig click, player and
tuner threads are not modelled beyond what their callers see of them: the ring,
the publisher and the lifecycle they stand on are. Seqlocks are a question of the
weak memory model, of which the modules keep no more than the acquire and release pairs give (a step is
atomic and sequentially consistent). The output route watcher is one
thread with three timers; its reports come to RigCalibration and RigRoutes in any
order. Argument checks in the C API and JNI, layout and colour,
preferences that are one record with one writer, build and lint tools, the test
programs under `native/audio_core/tools` and the vendored libraries carry no
protocol of the project's own.

Of the failures around an analysis, those of WorkManager itself, of deleting a marker
and of reading the stored results at the start are not modelled.

Inside modelled components: the engine's destruction, the reset of holders on a JS
reload and the choice of the sample rate; the mixer's gain inside a block, per-stem keys and
caller-owned readers; texts, names and formats beyond what the properties tell
apart; the song's own card and Bluetooth keys; and for each module what its header
says it abstracts.

## 8. What could follow

1. The rig click in the engine: its stop epoch and the metronome's take-over, drained in
   one block, under RigCalibration's abstract click.
2. The tuner's analysis thread: the tuning mode's owner between flag and queue, under
   Tuner's ring.
3. The metronome's beat automaton with count-in and ramp, under what
   MetronomeSettings and PracticeSessions take of it.
4. Proofs of SongLibrary's invariants, of LyricRetime's and of what Migrations'
   upgrades keep.
