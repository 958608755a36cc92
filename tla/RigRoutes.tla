----------------------------- MODULE RigRoutes -----------------------------
(***************************************************************************)
(* What the rig keeps: an offset for every audio output (routeLatency.ts   *)
(* over route-latency-repository.ts), the accents of each subdivision      *)
(* (subdivisionAccents.ts) and the click's volume (VolumeRow.tsx), from    *)
(* the settings screen's rows and sheets to the database and back at boot  *)
(* (rigBoot.ts, rigStart.ts, rigPreferences.ts).                           *)
(*                                                                         *)
(* The database takes one job at a time, in the order they were asked.  An *)
(* offset is 0..Top with 0 the offset of an output never calibrated; a     *)
(* mask is the set of accented slots.  Bounds: MaxPresses, MaxTurns,       *)
(* MaxFaults, MaxKills and MaxJobs.                                        *)
(***************************************************************************)
EXTENDS Integers, Sequences

CONSTANTS Routes, Top,
          Counts,     \* subdivision counts
          Volumes, Unity,
          MaxPresses, MaxTurns, MaxFaults, MaxKills, MaxJobs

ASSUME RigAssumption == "none" \notin Routes /\ Top \in Nat /\ Counts \subseteq Nat

VARIABLES
  device,   \* the output in use: id and certain
  news,     \* changes of output on their way to the store
  store,    \* live, stored, pending, whether the list was read
  applied,  \* the metronome's latency offset
  accents,  \* masks and lastCount as the store has them
  volume,   \* the metronome store's, the engine's, the slider's
  engineMasks,
  disk,     \* offsets, masks, lastCount, volume
  jobs,     \* what the database has been asked
  sheet,    \* which sheet of the rig section is open, for which route
  loose,    \* history: the offset was stepped on an output only guessed
  failed,   \* history: a job of the database failed
  spent

rigVars == <<device, news, store, applied, accents, volume, engineMasks, disk,
          jobs, sheet, loose, failed, spent>>

Unset == -1
Nobody == [id |-> "none", certain |-> FALSE]
Spend(kind) == spent' = [spent EXCEPT ![kind] = @ + 1]
May(kind, n) == spent[kind] < n
Ask(js) == Len(jobs) + Len(js) <= MaxJobs /\ jobs' = jobs \o js
clampOffset(x) == IF x > Top THEN Top ELSE IF x < 0 THEN 0 ELSE x
OffsetOf(stored, route) == IF stored[route] = Unset THEN 0 ELSE stored[route]

---------------------------------------------------------------------------
(* The offset of each output.                                              *)

NothingPending == [route |-> "none", offset |-> Unset]
SaveJob(entry) == [what |-> "save", key |-> entry.route, value |-> entry.offset]
RemoveJob(route) == [what |-> "remove", key |-> route, value |-> Unset]

cancelPending(s, route) ==
  IF s.pending.route # route THEN s ELSE [s EXCEPT !.pending = NothingPending]

Flushing(s) == s.pending # NothingPending
flush(s) == [s EXCEPT !.pending = NothingPending]
flushed(s) == IF Flushing(s) THEN <<SaveJob(s.pending)>> ELSE <<>>

\* Mutant: an output reported again takes its stored offset only if certain.
appliedOnRouteSure(s, route) ==
  IF s.live.id = route.id \/ ~route.certain THEN applied
  ELSE OffsetOf(s.stored, route.id)

appliedOnRoute(s, route) ==
  IF s.live.id = route.id THEN applied ELSE OffsetOf(s.stored, route.id)

onRoute(route) ==
  /\ IF store.pending.route # route.id
     THEN store' = [flush(store) EXCEPT !.live = route] /\ Ask(flushed(store))
     ELSE store' = [store EXCEPT !.live = route] /\ UNCHANGED jobs
  /\ applied' = appliedOnRoute(store, route)
  /\ loose' = (loose /\ store.live.id = route.id)

\* A step is applied at once and stored when the steps have settled.
step(delta) ==
  LET offset == clampOffset(applied + delta)
      entry == [route |-> store.live.id, offset |-> offset] IN
    /\ applied' = offset
    /\ IF store.live.certain
       THEN /\ store' = [store EXCEPT !.stored[entry.route] = offset,
                                      !.pending = entry]
            /\ loose' = FALSE
       ELSE store' = store /\ loose' = TRUE

record(entry) ==
  /\ store' = [cancelPending(store, entry.route)
                 EXCEPT !.stored[entry.route] = entry.offset]
  /\ IF store.live.id = entry.route
     THEN applied' = entry.offset /\ loose' = FALSE
     ELSE UNCHANGED <<applied, loose>>
  /\ Ask(<<SaveJob(entry)>>)

\* Mutant: clearing an output leaves its pending step to be written.
clearLeavingPending(route) ==
  /\ store' = [store EXCEPT !.stored[route] = Unset]
  /\ IF store.live.id = route THEN applied' = 0 /\ loose' = FALSE
     ELSE UNCHANGED <<applied, loose>>
  /\ Ask(<<RemoveJob(route)>>)

clear(route) ==
  /\ store' = [cancelPending(store, route) EXCEPT !.stored[route] = Unset]
  /\ IF store.live.id = route THEN applied' = 0 /\ loose' = FALSE
     ELSE UNCHANGED <<applied, loose>>
  /\ Ask(<<RemoveJob(route)>>)

---------------------------------------------------------------------------
(* The rows and sheets of the settings screen.                             *)

rowView(route) ==
  [route |-> route, live |-> store.live.id = route,
   stored |-> store.stored[route] # Unset,
   offset |-> IF store.live.id = route THEN applied
              ELSE OffsetOf(store.stored, route)]

routeRows ==
  {rowView(r) : r \in {q \in Routes : q = store.live.id
                                       \/ store.stored[q] # Unset}}

useRouteRows == {row.route : row \in routeRows}

outputLine ==
  [known |-> store.live # Nobody,
   saved |-> store.live.certain,
   offset |-> IF store.live.certain
              THEN OffsetOf(store.stored, store.live.id) ELSE Unset]

NoSheet == [kind |-> "none", route |-> "none"]
Untouched == <<device, news, engineMasks, disk, failed>>
Rig == <<store, applied, jobs, loose>>

Press == May("presses", MaxPresses) /\ Spend("presses")

LatencyRow ==
  /\ sheet = NoSheet
  /\ \E delta \in {-1, 1} : step(delta)
  /\ Press /\ UNCHANGED <<Untouched, accents, volume, jobs, sheet>>

OutputRow ==
  /\ sheet = NoSheet /\ outputLine.known
  /\ sheet' = [sheet EXCEPT !.kind = "output"]
  /\ UNCHANGED <<Untouched, Rig, accents, volume, spent>>

OutputSheet ==
  /\ sheet.kind = "output"
  /\ \/ \E row \in routeRows : sheet' = [kind |-> "route", route |-> row.route]
     \/ sheet' = NoSheet
  /\ UNCHANGED <<Untouched, Rig, accents, volume, spent>>

\* Clear only what is stored; the sheet is gone when its row is.
RouteSheet ==
  /\ sheet.kind = "route"
  /\ \/ /\ sheet.route \in useRouteRows /\ rowView(sheet.route).stored
        /\ clear(sheet.route) /\ Press
     \/ UNCHANGED <<Rig, spent>>
  /\ sheet' = [kind |-> "output", route |-> "none"]
  /\ UNCHANGED <<Untouched, accents, volume>>

\* A calibration stores what it measured for an output.
Calibrated ==
  /\ store.started = "yes" /\ sheet = NoSheet /\ store.live.certain
  /\ \E offset \in 1..Top :
       record([route |-> store.live.id, offset |-> offset])
  /\ Press /\ UNCHANGED <<Untouched, accents, volume, sheet>>

---------------------------------------------------------------------------
(* Accents and volume.                                                     *)

OnBeat == 0
engineMask(mask, count) == {slot \in mask : slot # OnBeat /\ slot < count}
loadedMasks(masks) == [c \in Counts |-> engineMask(masks[c], c)]
toggleSlotMask(mask, slot) ==
  IF slot = OnBeat THEN mask
  ELSE IF slot \in mask THEN mask \ {slot} ELSE mask \cup {slot}

Pref(key, value) == [what |-> "pref", key |-> key, value |-> value]

write(count, mask) ==
  LET next == [accents.masks EXCEPT ![count] = engineMask(mask, count)] IN
    /\ accents' = [accents EXCEPT !.lastCount = count, !.masks = next]
    /\ Ask((IF accents.lastCount = count THEN <<>>
            ELSE <<Pref("count", count)>>)
           \o (IF next = accents.masks THEN <<>> ELSE <<Pref("masks", next)>>))
    /\ engineMasks' = [c \in Counts |->
                         IF next[c] # accents.masks[c] THEN next[c]
                         ELSE engineMasks[c]]

AccentsSheet ==
  /\ sheet.kind = "accents"
  /\ \/ /\ Press /\ sheet' = sheet
        /\ \E count \in Counts :
             \/ \E slot \in 0..(count - 1) :
                  write(count, toggleSlotMask(accents.masks[count], slot))
             \/ write(count, {})
     \/ sheet' = NoSheet /\ UNCHANGED <<accents, engineMasks, jobs, spent>>
  /\ UNCHANGED <<device, news, store, applied, loose, volume, disk, failed>>

AccentsRow ==
  /\ sheet = NoSheet /\ sheet' = [NoSheet EXCEPT !.kind = "accents"]
  /\ UNCHANGED <<Untouched, Rig, accents, volume, spent>>

\* The slider is heard as it moves, and stored when it is let go.
slide(v) == volume' = [volume EXCEPT !.held = TRUE, !.engine = v]

setVolume(v) ==
  /\ volume' = [held |-> FALSE, store |-> v, engine |-> v]
  /\ Ask(IF v = volume.store THEN <<>> ELSE <<Pref("volume", v)>>)

\* Mutant: a slide that is taken away leaves the engine where it was.
cancelLeavingEngine ==
  volume' = [volume EXCEPT !.held = FALSE] /\ UNCHANGED jobs

cancel ==
  volume' = [volume EXCEPT !.held = FALSE, !.engine = volume.store]
  /\ UNCHANGED jobs

VolumeRow ==
  /\ sheet = NoSheet
  /\ \/ Press /\ (\E v \in Volumes : slide(v)) /\ UNCHANGED jobs
     \/ volume.held /\ setVolume(volume.engine) /\ spent' = spent
     \/ volume.held /\ cancel /\ spent' = spent
  /\ UNCHANGED <<Untouched, store, applied, loose, accents, sheet>>

---------------------------------------------------------------------------
(* Boot, the database and the output.                                      *)

\* bootRig: accents and volume are read and sent, the offsets asked for.
startRig(d) ==
  /\ accents' = [masks |-> loadedMasks(d.masks), lastCount |-> d.count]
  /\ engineMasks' = loadedMasks(d.masks)
  /\ volume' = [held |-> FALSE, store |-> d.volume, engine |-> d.volume]
  /\ store' = [live |-> Nobody, stored |-> [r \in Routes |-> Unset],
               pending |-> NothingPending, started |-> "listing"]
  /\ applied' = 0

RigInit ==
  /\ \E route \in Routes, sure \in BOOLEAN :
       device = [id |-> route, certain |-> sure]
  /\ news = <<>> /\ sheet = NoSheet /\ loose = FALSE /\ failed = FALSE
  /\ disk = [offsets |-> [r \in Routes |-> Unset],
             masks |-> [c \in Counts |-> {}],
             count |-> CHOOSE c \in Counts : \A k \in Counts : c <= k,
             volume |-> Unity]
  /\ accents = [masks |-> [c \in Counts |-> {}], lastCount |-> disk.count]
  /\ engineMasks = [c \in Counts |-> {}]
  /\ volume = [held |-> FALSE, store |-> Unity, engine |-> Unity]
  /\ store = [live |-> Nobody, stored |-> [r \in Routes |-> Unset],
              pending |-> NothingPending, started |-> "listing"]
  /\ applied = 0
  /\ jobs = <<[what |-> "list", key |-> "none", value |-> Unset]>>
  /\ spent = [presses |-> 0, turns |-> 0, faults |-> 0, kills |-> 0]

\* The process dies: what was pending or asked is gone.
Killed ==
  /\ May("kills", MaxKills) /\ Spend("kills")
  /\ startRig(disk)
  /\ jobs' = <<[what |-> "list", key |-> "none", value |-> Unset]>>
  /\ news' = <<>> /\ sheet' = NoSheet /\ loose' = FALSE /\ failed' = FALSE
  /\ UNCHANGED <<device, disk>>

Written(job) ==
  CASE job.what = "save" -> [disk EXCEPT !.offsets[job.key] = job.value]
    [] job.what = "remove" -> [disk EXCEPT !.offsets[job.key] = Unset]
    [] job.what = "pref" -> [disk EXCEPT ![job.key] = job.value]
    [] OTHER -> disk

\* The database's next job.  The list's answer starts the watch, whose
\* first news is the output in use.
Job ==
  /\ jobs # <<>> /\ jobs' = Tail(jobs)
  /\ LET job == Head(jobs) IN
     /\ disk' = Written(job)
     /\ IF job.what = "list"
        THEN /\ store' = [store EXCEPT !.stored = disk.offsets,
                                       !.started = "yes"]
             /\ news' = <<device>>
        ELSE UNCHANGED <<store, news>>
  /\ UNCHANGED <<device, applied, accents, volume, engineMasks, sheet, loose,
                 failed, spent>>

JobFails ==
  /\ jobs # <<>> /\ jobs' = Tail(jobs) /\ May("faults", MaxFaults)
  /\ Spend("faults") /\ failed' = TRUE
  /\ IF Head(jobs).what = "list"
     THEN store' = [store EXCEPT !.started = "yes"] /\ news' = <<device>>
     ELSE UNCHANGED <<store, news>>
  /\ UNCHANGED <<device, applied, accents, volume, engineMasks, disk, sheet,
                 loose>>

\* ROUTE_LATENCY_SAVE_DELAY_MS is over, or the app goes to the background.
Settles ==
  /\ Flushing(store) /\ store' = flush(store) /\ Ask(flushed(store))
  /\ UNCHANGED <<Untouched, applied, loose, accents, volume, sheet, spent>>

OutputChanges ==
  /\ May("turns", MaxTurns) /\ Spend("turns")
  /\ \E d \in [id : Routes, certain : BOOLEAN] :
       /\ d # device /\ device' = d
       /\ news' = IF store.started = "yes" THEN Append(news, d) ELSE news
  /\ UNCHANGED <<Rig, accents, volume, engineMasks, disk, sheet, failed>>

RouteHeard ==
  /\ news # <<>> /\ news' = Tail(news)
  /\ onRoute(Head(news))
  /\ UNCHANGED <<device, accents, volume, engineMasks, disk, sheet, failed,
                 spent>>

Rows == LatencyRow \/ OutputRow \/ AccentsRow \/ VolumeRow
Sheets == OutputSheet \/ RouteSheet \/ AccentsSheet
RigNext == Rows \/ Sheets \/ Calibrated \/ Killed \/ Job \/ JobFails \/ Settles
          \/ OutputChanges \/ RouteHeard

RigSpec == RigInit /\ [][RigNext]_rigVars

---------------------------------------------------------------------------
(* The offset that is applied is the one stored for the output in use, as  *)
(* long as it was not stepped while that output was only guessed.          *)
OffsetFollowsRoute ==
  store.live # Nobody /\ ~loose => applied = OffsetOf(store.stored, store.live.id)

(* Once the steps have settled and the database has answered every job,    *)
(* it holds what the app shows: every output's offset, the accents and the *)
(* volume, so that the next start brings them back.  A job that failed is  *)
(* all that may be missing.                                                *)
RigIsKept ==
  jobs = <<>> /\ ~Flushing(store) /\ ~failed =>
    /\ disk.offsets = store.stored
    /\ disk.masks = accents.masks /\ disk.count = accents.lastCount
    /\ disk.volume = volume.store

(* The engine plays by the settings that are shown: its masks are the      *)
(* store's, and its volume the store's unless a finger is on the slider.   *)
EngineIsSet ==
  /\ engineMasks = accents.masks
  /\ ~volume.held => volume.engine = volume.store

(* The latency offset in use is that of the output in use, what was set on *)
(* the rig is kept, and the engine plays by it (core-state rig).           *)
RigFollowsOutput == OffsetFollowsRoute /\ RigIsKept /\ EngineIsSet
=============================================================================
