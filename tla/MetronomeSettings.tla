------------------------- MODULE MetronomeSettings -------------------------
(***************************************************************************)
(* The metronome's settings: the store the screens edit, the commands it   *)
(* queues for the engine, the songs its settings are loaded from and saved *)
(* into, and the count-in preference.                                      *)
(*                                                                         *)
(* core-state/src/metronome holds the store; every setter clamps what it   *)
(* is given, writes the store and queues the commands that tell the engine *)
(* (metronome_pattern.cpp, metronome.cpp).  Nothing is ever read back but  *)
(* the tempo, so what is heard is right only if the two sides apply the    *)
(* same rules.  core-state/src/library/presetMapping.ts turns the settings *)
(* into a stored song and back; tool-metronome's practice sheet, pickers   *)
(* and song editor choose the values.                                      *)
(*                                                                         *)
(* Abstracted: tempos are whole, volume and latency (clamped and sent like *)
(* the rest) are left out, and the grid, the click and the count-in itself *)
(* are not here.  Minutes are a ramp unit like seconds.  Bounds: Typed,    *)
(* the numbers a finger types; MaxOps, the taps of a behaviour (a save of   *)
(* the settings is free, for it changes only the song).                    *)
(***************************************************************************)
EXTENDS Integers, Sequences, SequencesExt, FiniteSets

CONSTANTS
  MaxBeats,          \* KB_MAX_BEATS
  BpmMin, BpmMax,    \* KB_BPM_BOUNDS
  PolyMin, PolyMax,  \* KB_POLY_BEATS_BOUNDS
  SubMax,            \* KB_SUBDIVISION_BOUNDS.max
  RampBarsMax,       \* KB_MAX_RAMP_BARS
  RampSecMax,        \* KB_RAMP_SECONDS_BOUNDS.max
  MuteMax,           \* KB_MUTE_BARS_BOUNDS.max
  Sounds,            \* ids below KB_SOUND_NAMES.length
  CountInBars,       \* KB_COUNT_IN_BARS
  Typed,             \* bound: what the number pad is given
  StoredSongs,       \* the songs in the database: a function to rows
  MaxOps             \* bound: taps

VARIABLES
  m,        \* the metronome store
  q,        \* commands queued and not yet drained
  e,        \* the engine's own settings
  songs,    \* the stored songs
  loaded,   \* the song the settings were loaded from, or 0
  prefs,    \* the stored count-in preference
  clean,    \* history: nothing was edited since the load or the save
  raced,    \* history: the tempo was read back before the engine caught up
  refused,  \* history: the storage refused a song
  ops

vars == <<m, q, e, songs, loaded, prefs, clean, raced, refused, ops>>

Muted == 0
Normal == 1
Accented == 2
Denominators == {4, 8}
Bar == 0            \* KB_POLY_AGAINST_BAR
Units == {"bars", "seconds"}

Least(a, b) == IF a < b THEN a ELSE b
clamp(v, lo, hi) == IF v < lo THEN lo ELSE Least(v, hi)

---------------------------------------------------------------------------
(* config.ts, meterGroups.ts, polyAgainst.ts: the rules of the store.      *)

cycleAccentValue(a) ==
  CASE a = Accented -> Normal [] a = Normal -> Muted [] OTHER -> Accented

resizeAccents(prev, n) ==
  [i \in 1..n |-> IF i \in DOMAIN prev THEN prev[i] ELSE Normal]

initialAccents(n) == [i \in 1..n |-> IF i = 1 THEN Accented ELSE Normal]

IrregularGroups ==
  [n \in {5, 6, 7, 9, 10, 11, 12} |->
     CASE n = 5  -> <<3, 2>>       [] n = 6  -> <<3, 3>>
       [] n = 7  -> <<2, 2, 3>>    [] n = 9  -> <<3, 3, 3>>
       [] n = 10 -> <<3, 3, 2, 2>> [] n = 11 -> <<3, 3, 3, 2>>
       [] n = 12 -> <<3, 3, 3, 3>>]

beatGroupSizes(n) ==
  IF n \in DOMAIN IrregularGroups THEN IrregularGroups[n]
  ELSE [i \in 1..((n + 3) \div 4) |-> Least(4, n - 4 * (i - 1))]

groupStartAccents(n) ==
  LET sizes == beatGroupSizes(n)
      starts == {1 + FoldLeft(LAMBDA a, b : a + b, 0, SubSeq(sizes, 1, k)) :
                   k \in 0..(Len(sizes) - 1)}
  IN  [i \in 1..n |-> IF i \in starts THEN Accented ELSE Normal]

isPolyAgainst(v) == v = Bar \/ v \in 1..MaxBeats

normalizePolyAgainst(v, beats) ==
  IF isPolyAgainst(v) /\ v # beats THEN v ELSE Bar

effectivePolyAgainst(v, beats) == IF v = Bar THEN beats ELSE v

stepPolyAgainst(v, d, beats) ==
  normalizePolyAgainst(
    clamp(effectivePolyAgainst(v, beats) + d, 1, MaxBeats), beats)

rampIntervalBounds(unit) ==
  [min |-> 1, max |-> IF unit = "bars" THEN RampBarsMax ELSE RampSecMax]

clampRampInterval(v, unit) ==
  clamp(v, rampIntervalBounds(unit).min, rampIntervalBounds(unit).max)

RampRefused(r) == r.on /\ r.step = 0

normalizeRamp(r) ==
  IF ~r.on THEN r
  ELSE [r EXCEPT !.start = clamp(@, BpmMin, BpmMax),
                 !.target = clamp(@, BpmMin, BpmMax),
                 !.step = clamp(@, 1, BpmMax - BpmMin),
                 !.interval = clampRampInterval(@, r.unit)]

---------------------------------------------------------------------------
(* The engine: one operator per command it applies.                        *)

InitAccentRow(n) == initialAccents(n)

ResetGrownSlots(row, from, to) ==
  [i \in DOMAIN row |-> IF i > from /\ i <= to THEN Normal ELSE row[i]]

SetSignatureState(g, c) ==
  [g EXCEPT !.accents = ResetGrownSlots(@, g.beats, c.n),
            !.beats = c.n,
            !.den = IF c.d \in Denominators THEN c.d ELSE @]

SetPolyState(g, c) ==
  [g EXCEPT !.polyAccents = ResetGrownSlots(@, g.polyBeats, c.n),
            !.polyOn = c.on, !.polyBeats = c.n]

SetAccentSlot(row, length, c) ==
  IF c.i \in 1..length THEN [row EXCEPT ![c.i] = c.v] ELSE row

SetPolyAgainstState(g, c) ==
  IF isPolyAgainst(c.v) THEN [g EXCEPT !.against = c.v] ELSE g

ApplyPatternCommand(g, c) ==
  CASE c.c = "beats"       -> SetSignatureState(g, c)
    [] c.c = "subdivision" -> [g EXCEPT !.sub = clamp(c.v, 1, SubMax)]
    [] c.c = "accent"      -> [g EXCEPT !.accents =
                                 SetAccentSlot(@, g.beats, c)]
    [] c.c = "polyAccent"  -> [g EXCEPT !.polyAccents =
                                 SetAccentSlot(@, g.polyBeats, c)]
    [] c.c = "poly"        -> SetPolyState(g, c)
    [] c.c = "against"     -> SetPolyAgainstState(g, c)

\* Arming a ramp jumps to its start; disarming one leaves the tempo where
\* it is.
ArmRamp(g, c) ==
  IF ~c.r.on THEN [g EXCEPT !.ramp.on = FALSE]
  ELSE IF c.r.step = 0 THEN g
  ELSE [g EXCEPT !.ramp = normalizeRamp(c.r),
                 !.bpm = normalizeRamp(c.r).start]

ApplyTrainerCommand(g, c) ==
  CASE c.c = "ramp"    -> ArmRamp(g, c)
    [] c.c = "mute"    -> [g EXCEPT !.mute = c.b]
    [] c.c = "countIn" -> [g EXCEPT !.countIn = c.b]

ApplyClockCommand(g, c) ==
  [g EXCEPT !.bpm = clamp(c.v, BpmMin, BpmMax), !.ramp.on = FALSE]

BeginRun(g) ==
  [g EXCEPT !.running = TRUE,
            !.bpm = IF g.ramp.on THEN g.ramp.start ELSE @]

ApplyTransportCommand(g, c) ==
  CASE c.c = "start" -> BeginRun(g)
    [] OTHER         -> [g EXCEPT !.running = FALSE]

RouteCommand(g, c) ==
  CASE c.c \in {"start", "stop", "pause"} -> ApplyTransportCommand(g, c)
    [] c.c = "tempo"                      -> ApplyClockCommand(g, c)
    [] c.c \in {"ramp", "mute", "countIn"} -> ApplyTrainerCommand(g, c)
    [] c.c = "sounds"                     -> [g EXCEPT !.sounds = c.b]
    [] OTHER                              -> ApplyPatternCommand(g, c)

\* ApplyPendingCommands: all that is queued, in order.
Drained(g, cs) == FoldLeft(RouteCommand, g, cs)

\* The ramp's next tempo: towards the target, then round again if it loops.
TempoAfter(g) ==
  LET r == g.ramp IN
  CASE g.bpm < r.target -> Least(g.bpm + r.step, r.target)
    [] g.bpm > r.target -> IF g.bpm - r.step > r.target
                           THEN g.bpm - r.step ELSE r.target
    [] OTHER            -> IF r.loop THEN r.start ELSE g.bpm

---------------------------------------------------------------------------
(* The setters.  Each maps a pair of store and queue to the next one; a    *)
(* pair is [m |-> the store, q |-> the queue, raced |-> the history].      *)

S == [m |-> m, q |-> q, raced |-> raced]

Then(s, store, cs) == [s EXCEPT !.m = store, !.q = @ \o cs]

accentCommands(kind, accents) ==
  [i \in 1..Len(accents) |-> [c |-> kind, i |-> i, v |-> accents[i]]]

setBeats(s, n, d) ==
  LET beats == Least(n, MaxBeats)
      den == IF d \in Denominators THEN d ELSE s.m.den
      changed == beats # s.m.beats
      accents == IF changed THEN groupStartAccents(beats) ELSE s.m.accents
      against == normalizePolyAgainst(s.m.against, beats)
  IN  IF n < 1 THEN s
      ELSE Then(s, [s.m EXCEPT !.beats = beats, !.den = den,
                               !.accents = accents, !.against = against],
             <<[c |-> "beats", n |-> beats, d |-> den]>>
             \o (IF against # s.m.against
                 THEN <<[c |-> "against", v |-> against]>> ELSE <<>>)
             \o (IF changed THEN accentCommands("accent", accents)
                 ELSE <<>>))

setSubdivision(s, v) ==
  Then(s, [s.m EXCEPT !.sub = clamp(v, 1, SubMax)],
       <<[c |-> "subdivision", v |-> clamp(v, 1, SubMax)]>>)

cycleAccent(s, i) ==
  LET next == cycleAccentValue(s.m.accents[i]) IN
  IF i \notin DOMAIN s.m.accents THEN s
  ELSE Then(s, [s.m EXCEPT !.accents[i] = next],
            <<[c |-> "accent", i |-> i, v |-> next]>>)

setAccents(s, accents) ==
  LET next == resizeAccents(accents, s.m.beats) IN
  Then(s, [s.m EXCEPT !.accents = next], accentCommands("accent", next))

setPoly(s, on, beats) ==
  LET n == Least(beats, PolyMax) IN
  IF beats < PolyMin THEN s
  ELSE Then(s, [s.m EXCEPT !.polyOn = on, !.polyBeats = n,
                           !.polyAccents = resizeAccents(@, n)],
            <<[c |-> "poly", on |-> on, n |-> n]>>)

setPolyAgainst(s, v) ==
  LET against == normalizePolyAgainst(v, s.m.beats) IN
  Then(s, [s.m EXCEPT !.against = against],
       <<[c |-> "against", v |-> against]>>)

cyclePolyAccent(s, i) ==
  LET next == cycleAccentValue(s.m.polyAccents[i]) IN
  IF i \notin DOMAIN s.m.polyAccents THEN s
  ELSE Then(s, [s.m EXCEPT !.polyAccents[i] = next],
            <<[c |-> "polyAccent", i |-> i, v |-> next]>>)

setPolyAccents(s, accents) ==
  LET next == resizeAccents(accents, s.m.polyBeats) IN
  Then(s, [s.m EXCEPT !.polyAccents = next],
       accentCommands("polyAccent", next))

setSounds(s, b) ==
  Then(s, [s.m EXCEPT !.sounds = b], <<[c |-> "sounds", b |-> b]>>)

setCountIn(s, b) ==
  LET next == [b EXCEPT !.bars = IF @ \in CountInBars THEN @
                                 ELSE s.m.countIn.bars] IN
  Then(s, [s.m EXCEPT !.countIn = next], <<[c |-> "countIn", b |-> next]>>)

\* What a read of the tempo may miss: a queued command that changes it, or
\* a ramp that steps between the read and the command that follows it.
Stale(s) ==
  \/ e.running /\ e.ramp.on
  \/ \E i \in 1..Len(s.q) : s.q[i].c \in {"tempo", "ramp", "start"}

\* readEngineTempo: the engine is asked only while the store says it runs.
readTempo(s) == IF s.m.running THEN e.bpm ELSE s.m.bpm

sync(s) ==
  IF ~s.m.running THEN s
  ELSE [s EXCEPT !.m.bpm = readTempo(s), !.raced = @ \/ Stale(s)]

setTempo(s, v) ==
  LET bpm == clamp(v, BpmMin, BpmMax) IN
  [Then(s, [s.m EXCEPT !.bpm = bpm, !.ramp.on = FALSE],
        <<[c |-> "tempo", v |-> bpm]>>) EXCEPT !.raced = FALSE]

nudgeTempo(s, d) == setTempo(s, readTempo(s) + d)

\* Mutant: the store keeps its tempo when a ramp is armed.
setRampQuietly(s, config) ==
  LET r == normalizeRamp(config)
      sent == <<[c |-> "ramp", r |-> r]>> IN
  IF RampRefused(config) THEN s
  ELSE IF r.on THEN Then(s, [s.m EXCEPT !.ramp = r], sent)
       ELSE sync(Then(s, [s.m EXCEPT !.ramp = r], sent))

setRamp(s, config) ==
  LET r == normalizeRamp(config)
      sent == <<[c |-> "ramp", r |-> r]>> IN
  IF RampRefused(config) THEN s
  ELSE IF r.on
       THEN [Then(s, [s.m EXCEPT !.ramp = r, !.bpm = r.start], sent)
               EXCEPT !.raced = FALSE]
       ELSE sync(Then(s, [s.m EXCEPT !.ramp = r], sent))

setBarMute(s, b) ==
  LET next == [b EXCEPT !.play = clamp(@, 1, MuteMax),
                        !.mute = clamp(@, 1, MuteMax)] IN
  Then(s, [s.m EXCEPT !.mute = next], <<[c |-> "mute", b |-> next]>>)

setCountInScope(s, scope) == [s EXCEPT !.m.scope = scope]

start(s) == Then(s, [s.m EXCEPT !.running = TRUE], <<[c |-> "start"]>>)

halt(s, kind) ==
  LET t == sync(s) IN
  Then(t, [t.m EXCEPT !.running = FALSE], <<[c |-> kind]>>)

---------------------------------------------------------------------------
(* presetMapping.ts: songs.  A row's optional fields are 0 for NULL.       *)

presetFromMetronome(c) ==
  [bpm |-> c.bpm, beats |-> c.beats, den |-> c.den, sub |-> c.sub,
   accents |-> c.accents, polyOn |-> c.polyOn, polyBeats |-> c.polyBeats,
   against |-> c.against, polyAccents |-> c.polyAccents,
   sounds |-> c.sounds, ramp |-> c.ramp, mute |-> c.mute,
   countIn |-> c.countIn.bars]

\* With a count-in on every song, the song's own is left as stored.
songFieldsFromMetronome(c, row) ==
  [presetFromMetronome(c) EXCEPT
     !.countIn = IF c.scope = "always" THEN row.countIn ELSE @]

rampOf(row, current) ==
  [row.ramp EXCEPT
     !.start = IF @ = 0 THEN row.bpm ELSE @,
     !.target = IF @ = 0 THEN row.bpm ELSE @,
     !.interval = IF @ = 0 THEN current.interval ELSE @]

songCountIn(scope, bars, live) ==
  IF scope = "always" THEN live
  ELSE [live EXCEPT !.bars = IF bars \in CountInBars THEN bars ELSE 0]

songSettingsOf(row, c) ==
  [row EXCEPT
     !.accents = resizeAccents(@, row.beats),
     !.against = normalizePolyAgainst(@, row.beats),
     !.polyAccents = resizeAccents(@, row.polyBeats),
     !.ramp = LET r == rampOf(row, c.ramp) IN
              IF RampRefused(r) THEN r ELSE normalizeRamp(r),
     !.mute = [@ EXCEPT !.play = IF @ = 0 THEN c.mute.play ELSE @,
                        !.mute = IF @ = 0 THEN c.mute.mute ELSE @],
     !.countIn = songCountIn(c.scope, @, c.countIn).bars]

liveSettingsOf(c) ==
  [presetFromMetronome(c) EXCEPT
     !.against = normalizePolyAgainst(@, c.beats)]

isLoadedSongUnsaved(row, c) ==
  LET song == songSettingsOf(row, c)
      live == liveSettingsOf(c) IN
  (IF c.ramp.on THEN [song EXCEPT !.bpm = live.bpm] ELSE song) # live

applyTempo(s, bpm, ramp) ==
  IF ramp.on THEN setRamp(setTempo(s, bpm), ramp)
  ELSE setTempo(setRamp(s, ramp), bpm)

\* Mutant: the accents before the meter they are for.
applyPresetAccentsFirst(s0, row) ==
  LET song == songSettingsOf(row, s0.m)
      s1 == setBeats(setAccents(s0, song.accents), song.beats, song.den)
      s2 == setSubdivision(s1, song.sub)
      s3 == setPoly(s2, song.polyOn, song.polyBeats)
      s4 == setPolyAccents(setPolyAgainst(s3, song.against),
                           song.polyAccents)
      s5 == setSounds(s4, song.sounds)
      s6 == IF s0.m.scope = "perSong"
            THEN setCountIn(s5, [s0.m.countIn EXCEPT !.bars = song.countIn])
            ELSE s5
  IN  applyTempo(setBarMute(s6, song.mute), row.bpm, song.ramp)

applyPreset(s0, row) ==
  LET song == songSettingsOf(row, s0.m)
      s1 == setBeats(s0, song.beats, song.den)
      s2 == setSubdivision(setAccents(s1, song.accents), song.sub)
      s3 == setPoly(s2, song.polyOn, song.polyBeats)
      s4 == setPolyAccents(setPolyAgainst(s3, song.against),
                           song.polyAccents)
      s5 == setSounds(s4, song.sounds)
      s6 == IF s0.m.scope = "perSong"
            THEN setCountIn(s5, [s0.m.countIn EXCEPT !.bars = song.countIn])
            ELSE s5
  IN  applyTempo(setBarMute(s6, song.mute), row.bpm, song.ramp)

---------------------------------------------------------------------------
(* The rules a stored song must keep (core-db/src/preset-rules.ts).        *)

nullOrWithin(v, lo, hi) == v = 0 \/ v \in lo..hi

rampLengthBound(unit) == rampIntervalBounds(unit).max

boundViolation(row) ==
  \/ row.bpm \notin BpmMin..BpmMax
  \/ row.beats \notin 1..MaxBeats
  \/ row.sub \notin 1..SubMax
  \/ row.polyBeats \notin 0..PolyMax
  \/ ~nullOrWithin(row.ramp.start, BpmMin, BpmMax)
  \/ ~nullOrWithin(row.ramp.target, BpmMin, BpmMax)
  \/ ~nullOrWithin(row.ramp.interval, 1, rampLengthBound(row.ramp.unit))
  \/ ~nullOrWithin(row.mute.play, 1, MuteMax)
  \/ ~nullOrWithin(row.mute.mute, 1, MuteMax)

blobViolation(row) ==
  \/ Len(row.accents) # row.beats
  \/ Len(row.polyAccents) # row.polyBeats
  \/ row.sounds.normal \notin Sounds \/ row.sounds.accent \notin Sounds

presetViolation(row) ==
  \/ row.den \notin Denominators
  \/ row.ramp.unit \notin Units
  \/ row.ramp.step \notin 1..(BpmMax - BpmMin)
  \/ ~isPolyAgainst(row.against)
  \/ boundViolation(row)
  \/ blobViolation(row)

---------------------------------------------------------------------------
(* What the practice sheet, the pickers and the number pad offer.          *)

Deltas == {-1, 1}
stepWithin(v, d, lo, hi) == clamp(v + d, lo, hi)

\* The numbers the pad may commit for each of the practice sheet's fields.
practiceEntry(unit) ==
  LET tempo == [min |-> BpmMin, max |-> BpmMax]
      bars == [min |-> 1, max |-> MuteMax]
  IN  [start |-> tempo, target |-> tempo,
       step |-> [min |-> 1, max |-> BpmMax - BpmMin],
       interval |-> rampIntervalBounds(unit), play |-> bars, mute |-> bars,
       poly |-> [min |-> PolyMin, max |-> PolyMax],
       against |-> [min |-> 1, max |-> MaxBeats]]

\* The number pad clamps what was typed when it is confirmed.
confirmEntry(bounds) == {clamp(n, bounds.min, bounds.max) : n \in Typed}

entered(unit, field) == confirmEntry(practiceEntry(unit)[field])

stepRampInterval(r, d) ==
  [r EXCEPT !.interval = Least(IF @ + d < 1 THEN 1 ELSE @ + d,
                               rampIntervalBounds(r.unit).max)]

\* Mutant: another unit, the same number.
withRampUnitBare(r, unit) == [r EXCEPT !.unit = unit]

withRampUnit(r, unit) ==
  [r EXCEPT !.unit = unit, !.interval = clampRampInterval(@, unit)]

useBpmStepper(r) ==
  {[r EXCEPT !.start = stepWithin(@, d, BpmMin, BpmMax)] : d \in Deltas}
  \cup
  {[r EXCEPT !.target = stepWithin(@, d, BpmMin, BpmMax)] : d \in Deltas}

useCadenceEdits(r) ==
  {[r EXCEPT !.step = stepWithin(@, d, 1, BpmMax - BpmMin)] : d \in Deltas}
  \cup {stepRampInterval(r, d) : d \in Deltas}
  \cup {withRampUnit(r, unit) : unit \in Units}
  \cup {[r EXCEPT !.loop = ~@]}

\* useRampEditor: what one touch of the ramp's section makes of it.
useRampEditor(r) ==
  {[r EXCEPT !.on = ~@]} \cup useBpmStepper(r) \cup useCadenceEdits(r)

useBarMuteEditor(b) ==
  {[b EXCEPT !.on = ~@]}
  \cup {[b EXCEPT !.play = stepWithin(@, d, 1, MuteMax)] : d \in Deltas}
  \cup {[b EXCEPT !.mute = stepWithin(@, d, 1, MuteMax)] : d \in Deltas}

\* withPracticeEntry: the ramps and the mutes a typed number can make.
typedRamps(r) ==
  UNION {{[r EXCEPT ![field] = v] : v \in entered(r.unit, field)} :
           field \in {"start", "target", "step", "interval"}}

typedMutes(b) ==
  UNION {{[b EXCEPT ![field] = v] : v \in entered("bars", field)} :
           field \in {"play", "mute"}}

soundsWith(b, role, id) == [b EXCEPT ![role] = id]

soundPicks(b) == {soundsWith(b, role, id) :
                    role \in {"normal", "accent"}, id \in Sounds}

numeratorChoices == 1..MaxBeats

---------------------------------------------------------------------------
(* presetDraft.ts and the song editor's groups: one edit of a draft.       *)

polyAccentsOf(row, n) ==
  [i \in 1..n |-> IF i \in DOMAIN row.polyAccents THEN row.polyAccents[i]
                  ELSE initialAccents(n)[i]]

DefaultPolyBeats == clamp(3, PolyMin, PolyMax)
DefaultTrainerBars == clamp(4, 1, MuteMax)

rampDraftOf(row) ==
  [row.ramp EXCEPT
     !.start = IF @ = 0 THEN row.bpm ELSE @,
     !.target = IF @ = 0 THEN row.bpm ELSE @,
     !.interval = IF @ = 0 THEN DefaultTrainerBars ELSE @]

draftFrom(row) ==
  LET n == IF row.polyBeats >= PolyMin THEN row.polyBeats
           ELSE DefaultPolyBeats IN
  [row EXCEPT
     !.polyBeats = n,
     !.polyAccents = polyAccentsOf(row, n),
     !.against = normalizePolyAgainst(@, row.beats),
     !.ramp = rampDraftOf(row),
     !.mute = [@ EXCEPT !.play = IF @ = 0 THEN DefaultTrainerBars ELSE @,
                        !.mute = IF @ = 0 THEN DefaultTrainerBars ELSE @]]

withBeats(d, delta) ==
  LET n == clamp(d.beats + delta, 1, MaxBeats) IN
  [d EXCEPT !.beats = n, !.accents = resizeAccents(@, n),
            !.against = normalizePolyAgainst(@, n)]

withPolyBeats(d, delta) ==
  LET n == clamp(d.polyBeats + delta, PolyMin, PolyMax) IN
  [d EXCEPT !.polyBeats = n, !.polyAccents = resizeAccents(@, n)]

withPolyAgainst(d, delta) ==
  [d EXCEPT !.against = stepPolyAgainst(@, delta, d.beats)]

withNextDenominator(d) == [d EXCEPT !.den = IF @ = 4 THEN 8 ELSE 4]

withCycledAccent(d, i) == [d EXCEPT !.accents[i] = cycleAccentValue(@)]

\* SignatureRow, AccentsRow, PolyRows, TempoRow, SubdivisionRow.
signatureEdits(d) ==
  {withBeats(d, delta) : delta \in Deltas} \cup {withNextDenominator(d)}

accentEdits(d) == {withCycledAccent(d, i) : i \in 1..d.beats}

polyEdits(d) ==
  {[d EXCEPT !.polyOn = ~@]}
  \cup (IF d.polyOn THEN {withPolyBeats(d, delta) : delta \in Deltas}
                         \cup {withPolyAgainst(d, delta) : delta \in Deltas}
        ELSE {})

tempoEdits(d) ==
  {[d EXCEPT !.bpm = clamp(@ + delta, BpmMin, BpmMax)] : delta \in Deltas}

subdivisionEdits(d) ==
  {[d EXCEPT !.sub = clamp(@ + delta, 1, SubMax)] : delta \in Deltas}

\* RampRows and MuteRows offer their steppers only while they are on.
rampRowEdits(d) ==
  {[d EXCEPT !.ramp.on = ~@]}
  \cup (IF d.ramp.on THEN {[d EXCEPT !.ramp = r] : r \in useBpmStepper(d.ramp)
                              \cup useCadenceEdits(d.ramp)} ELSE {})

muteRowEdits(d) ==
  {[d EXCEPT !.mute.on = ~@]}
  \cup (IF d.mute.on THEN {[d EXCEPT !.mute = b] :
                             b \in useBarMuteEditor(d.mute)} ELSE {})

rigEdits(d) ==
  {[d EXCEPT !.sounds = b] : b \in soundPicks(d.sounds)}
  \cup {[d EXCEPT !.countIn = n] : n \in CountInBars}
  \cup rampRowEdits(d) \cup muteRowEdits(d)

musicEdits(d) ==
  tempoEdits(d) \cup signatureEdits(d) \cup subdivisionEdits(d)
  \cup accentEdits(d) \cup polyEdits(d)

---------------------------------------------------------------------------
(* The count-in preference.                                                *)

CountInSettings(c) == [bars |-> c.countIn.bars, distinct |-> c.countIn.distinct,
                       scope |-> c.scope]

\* Mutant: the scope is not among the fields compared.
savedCountInNoScope(stored, before, after) ==
  [k \in DOMAIN stored |->
     IF k # "scope" /\ CountInSettings(before)[k] # CountInSettings(after)[k]
     THEN CountInSettings(after)[k] ELSE stored[k]]

\* bindCountInPersistence's subscription writes what changed.
savedCountIn(stored, before, after) ==
  [k \in DOMAIN stored |->
     IF CountInSettings(before)[k] # CountInSettings(after)[k]
     THEN CountInSettings(after)[k] ELSE stored[k]]

applyStoredCountIn(s, stored) ==
  setCountIn(setCountInScope(s, stored.scope),
             [bars |-> stored.bars, distinct |-> stored.distinct])

---------------------------------------------------------------------------
DefaultRamp == [on |-> FALSE, start |-> BpmMin + 1, target |-> BpmMin + 1,
                step |-> 1, interval |-> 1, unit |-> "bars", loop |-> FALSE]
DefaultMute == [on |-> FALSE, play |-> DefaultTrainerBars,
                mute |-> DefaultTrainerBars]
DefaultBeats == Least(4, MaxBeats)

initialConfig ==
  [bpm |-> BpmMin + 1, beats |-> DefaultBeats, den |-> 4, sub |-> 1,
   accents |-> initialAccents(DefaultBeats),
   polyOn |-> FALSE, polyBeats |-> DefaultPolyBeats, against |-> Bar,
   polyAccents |-> initialAccents(DefaultPolyBeats),
   sounds |-> [normal |-> 0, accent |-> 0], ramp |-> DefaultRamp,
   mute |-> DefaultMute, countIn |-> [bars |-> 0, distinct |-> TRUE],
   scope |-> "perSong", running |-> FALSE]

engineDefaults ==
  [initialConfig EXCEPT !.accents = InitAccentRow(MaxBeats),
                        !.polyAccents = InitAccentRow(PolyMax),
                        !.scope = "none"]

Init ==
  /\ m = initialConfig
  /\ q = <<>>
  /\ e = engineDefaults
  /\ songs = StoredSongs
  /\ loaded = 0
  /\ prefs = CountInSettings(initialConfig)
  /\ clean = FALSE
  /\ raced = FALSE
  /\ refused = FALSE
  /\ ops = 0

\* A tap that leaves the store and the queue as in t.
Becomes(t) ==
  /\ ops < MaxOps
  /\ ops' = ops + 1
  /\ m' = t.m /\ q' = t.q /\ raced' = t.raced
  /\ prefs' = savedCountIn(prefs, m, t.m)
  /\ UNCHANGED <<e, refused>>

Edit(t) == Becomes(t) /\ clean' = FALSE /\ UNCHANGED <<songs, loaded>>

\* The transport changes no setting, so a song that was clean stays so.
Transport(t) == Becomes(t) /\ UNCHANGED <<songs, loaded, clean>>

---------------------------------------------------------------------------
(* The screen's handlers.                                                  *)

handleNudge == \E d \in Deltas : Edit(nudgeTempo(S, d))
handleSwipeOrTypedTempo ==
  \E v \in entered("bars", "start") : Edit(setTempo(S, v))
handleOpenNumpad == Transport(sync(S))
handleToggleTransport ==
  Transport(IF m.running THEN halt(S, "stop") ELSE start(S))
\* The notification's pause.
pause == m.running /\ Transport(halt(S, "pause"))

MeterSet == \E n \in numeratorChoices, d \in Denominators :
              Edit(setBeats(S, n, d))
SubdivisionPick == \E v \in 1..SubMax : Edit(setSubdivision(S, v))
AccentTap == \E i \in 1..m.beats : Edit(cycleAccent(S, i))
\* The store offers it; no screen calls it yet.
PolyAccentTap == \E i \in 1..m.polyBeats : Edit(cyclePolyAccent(S, i))

PracticeRamp == \E r \in useRampEditor(m.ramp) \cup typedRamps(m.ramp) :
                  Edit(setRamp(S, r))
PracticeMute == \E b \in useBarMuteEditor(m.mute) \cup typedMutes(m.mute) :
                  Edit(setBarMute(S, b))
PracticeCountIn ==
  \/ \E n \in CountInBars :
       Edit(setCountIn(S, [m.countIn EXCEPT !.bars = n]))
  \/ Edit(setCountIn(S, [m.countIn EXCEPT !.distinct = ~@]))
  \/ Edit(setCountInScope(S, IF m.scope = "always" THEN "perSong"
                             ELSE "always"))
PracticeSound == \E b \in soundPicks(m.sounds) : Edit(setSounds(S, b))
PracticePoly ==
  \/ Edit(setPoly(S, ~m.polyOn, m.polyBeats))
  \/ \E d \in Deltas : Edit(setPoly(S, m.polyOn, m.polyBeats + d))
  \/ \E d \in Deltas :
       Edit(setPolyAgainst(S, stepPolyAgainst(m.against, d, m.beats)))
  \/ \E v \in entered("bars", "poly") : Edit(setPoly(S, m.polyOn, v))
  \/ \E v \in entered("bars", "against") :
       Edit(setPolyAgainst(S, normalizePolyAgainst(v, m.beats)))

---------------------------------------------------------------------------
(* Songs.                                                                  *)

LoadSong(i) ==
  /\ Becomes(applyPreset(S, songs[i]))
  /\ loaded' = i /\ clean' = TRUE
  /\ UNCHANGED songs

\* updatePreset refuses a row that breaks the rules, and normalizes what the
\* poly plays against.
Store(i, row) == /\ songs' = [songs EXCEPT ![i] =
                      IF presetViolation(row) THEN @
                      ELSE [row EXCEPT !.against =
                              normalizePolyAgainst(@, row.beats)]]
                 /\ refused' = (refused \/ presetViolation(row))
                 /\ UNCHANGED <<m, q, e, loaded, prefs, raced>>

SaveCurrentInto ==
  /\ loaded # 0
  /\ Store(loaded, songFieldsFromMetronome(m, songs[loaded]))
  /\ clean' = TRUE
  /\ UNCHANGED ops

SaveEditor(i) ==
  /\ ops < MaxOps /\ ops' = ops + 1
  /\ \E d \in musicEdits(draftFrom(songs[i]))
              \cup rigEdits(draftFrom(songs[i])) : Store(i, d)
  /\ clean' = (clean /\ loaded # i)

---------------------------------------------------------------------------
(* The engine and the process.                                             *)

ApplyPendingCommands ==
  /\ q # <<>>
  /\ e' = Drained(e, q) /\ q' = <<>>
  /\ UNCHANGED <<m, songs, loaded, prefs, clean, raced, refused, ops>>

RampStep ==
  /\ e.running /\ e.ramp.on /\ TempoAfter(e) # e.bpm
  /\ e' = [e EXCEPT !.bpm = TempoAfter(e)]
  /\ UNCHANGED <<m, q, songs, loaded, prefs, clean, raced, refused, ops>>

\* The process dies and starts again: the songs and the preference remain.
Restart ==
  /\ ops < MaxOps /\ ops' = ops + 1
  /\ LET t == applyStoredCountIn(
                [m |-> initialConfig, q |-> <<>>, raced |-> FALSE], prefs)
     IN  m' = t.m /\ q' = t.q
  /\ e' = engineDefaults
  /\ loaded' = 0 /\ clean' = FALSE /\ raced' = FALSE
  /\ UNCHANGED <<songs, prefs, refused>>

Next ==
  \/ handleNudge \/ handleSwipeOrTypedTempo \/ handleOpenNumpad
  \/ handleToggleTransport \/ pause
  \/ MeterSet \/ SubdivisionPick \/ AccentTap \/ PolyAccentTap
  \/ PracticeRamp \/ PracticeMute \/ PracticeCountIn \/ PracticeSound
  \/ PracticePoly
  \/ \E i \in DOMAIN songs : LoadSong(i) \/ SaveEditor(i)
  \/ SaveCurrentInto
  \/ ApplyPendingCommands \/ RampStep \/ Restart

Spec == Init /\ [][Next]_vars

---------------------------------------------------------------------------
\* The settings both sides keep; the engine's rows are longer than the bar.
Heard(g, n, k) ==
  [beats |-> g.beats, den |-> g.den, sub |-> g.sub,
   accents |-> SubSeq(g.accents, 1, n), polyOn |-> g.polyOn,
   polyBeats |-> g.polyBeats, against |-> g.against,
   polyAccents |-> SubSeq(g.polyAccents, 1, k), sounds |-> g.sounds,
   mute |-> g.mute, countIn |-> g.countIn, rampOn |-> g.ramp.on,
   ramp |-> IF g.ramp.on THEN g.ramp ELSE DefaultRamp,
   running |-> g.running]

\* Once the engine has applied what is queued it plays what the store shows,
\* whatever was tapped, typed, loaded or restarted: every setter, the store's
\* resizing and the engine's own rules for grown rows and armed ramps agree.
\* The tempo too, unless a running ramp drives it or it was read back before the
\* engine had caught up.  (patternActions.ts, store.ts and
\* metronome_pattern.cpp, metronome.cpp)
EngineAgrees ==
  LET d == Drained(e, q) IN
  /\ Heard(d, m.beats, m.polyBeats) = Heard(m, m.beats, m.polyBeats)
  /\ (m.ramp.on /\ m.running) \/ raced \/ d.bpm = m.bpm

\* A song just loaded, or just saved, is not marked as changed, through any
\* starts, stops and ramp steps since: applyPreset leaves the settings that
\* isLoadedSongUnsaved compares, and a save stores them all.
LoadedIsClean ==
  clean /\ ~raced => ~isLoadedSongUnsaved(songs[loaded], m)

\* No song can be brought, by loads, live edits and the song editor, to a
\* state its own storage refuses: the settings and every draft stay inside
\* preset-rules.ts, so neither Save nor a new song fails on them.
SongsStorable == ~refused /\ ~presetViolation(presetFromMetronome(m))

\* The count-in the musician set is the one stored, so a restart brings it
\* back, also when loading a song is what set it.
CountInKept == prefs = CountInSettings(m)

\* As presetMapping.test.ts:130 has it, isLoadedSongUnsaved "is false right
\* after a load", for every song the storage accepts.
FalseRightAfterLoad == LoadedIsClean

=============================================================================
