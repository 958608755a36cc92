----------------------------- MODULE Migrations -----------------------------
(***************************************************************************)
(* Opening the database.  getDatabase() connects, and the connection is    *)
(* migrated before anyone sees it: the statements from the file's version  *)
(* to the newest run in one transaction, with foreign keys off around it,  *)
(* and a file of version 0 gets the baseline.  A statement may fail and    *)
(* the process may die after any of them; whoever needs the database asks  *)
(* again.  A table is its set of columns and its rows, a row a function    *)
(* from columns to values; schema.ts says what the app's queries expect.   *)
(***************************************************************************)
EXTENDS Naturals, FiniteSets
LOCAL INSTANCE Sequences
LOCAL INSTANCE TLC

CONSTANTS
  Versions,     \* the versions a file may be met at
  MaxFaults     \* bound on failed statements and dead processes

VARIABLES
  disk,     \* the committed file: version, tables, rows, item references
  first,    \* the file as this history found it
  conn,     \* "none", "migrating" or "open"
  work,     \* the open transaction's view
  todo,     \* statements left
  fk,       \* the connection's foreign_keys pragma
  deleted,  \* sets the user deleted
  faults

vars == <<disk, first, conn, work, todo, fk, deleted, faults>>

SCHEMA_VERSION == 19

-----------------------------------------------------------------------------
(* What the queries expect: schema.ts.                                     *)

setlists == {"id", "name", "uuid", "active"}
songs == {"id", "title", "artist", "file_path", "duration", "format",
  "created_at", "beat_grid", "downbeat_indices", "bpm", "waveform_path",
  "uuid", "analysis_status", "analysis_error"}
songPresets == {"id", "name", "bpm", "beats_per_bar", "subdivision",
  "denominator", "accents", "per_accent_sounds", "poly_accents",
  "poly_enabled", "poly_beats", "poly_against", "sound", "ramp_enabled",
  "ramp_start_bpm", "ramp_end_bpm", "ramp_length", "ramp_step", "ramp_unit",
  "ramp_loop", "bar_mute_enabled", "bar_mute_play_bars",
  "bar_mute_mute_bars", "count_in_bars", "notes", "phase_nudge", "title",
  "artist", "source", "length_seconds", "library_song_id", "uuid"}
setlistItems == {"id", "setlist_id", "song_preset_id", "position"}
tunings == {"id", "name", "notes", "uuid", "instrument"}
practiceSessions == {"id", "start_time", "duration_seconds", "avg_bpm",
  "setlist_id", "songs_played", "uuid"}
stemSets == {"id", "name", "song_title", "artist", "created_at", "uuid",
  "source", "stemdeck_job_id", "key", "scale", "key_confidence", "bpm",
  "loudness_lufs", "tempo_stability", "beat_grid", "bar_marks", "sections",
  "lyrics_synced", "lyrics_plain", "lyrics_offset", "lyrics_instrumental",
  "lyrics_retimed", "speed", "sample_rate", "folder", "renamed"}
stems == {"id", "stem_set_id", "role", "file_path", "duration", "format",
  "channel_count", "sample_rate", "gain", "muted", "soloed", "sort_order",
  "pitch", "waveform_path", "frames", "name"}
subdivisionAccents == {"subdivision", "accents"}
bpmCache == {"id", "title", "artist", "bpm", "source", "fetched_at"}
routeLatency == {"route", "offset_ms", "name", "kind"}
preferences == {"key", "value"}

schema == [setlists |-> setlists, songs |-> songs,
  song_presets |-> songPresets, setlist_items |-> setlistItems,
  tunings |-> tunings, practice_sessions |-> practiceSessions,
  stem_sets |-> stemSets, stems |-> stems,
  subdivision_accents |-> subdivisionAccents, bpm_cache |-> bpmCache,
  route_latency |-> routeLatency, preferences |-> preferences]

-----------------------------------------------------------------------------
(* The statements of migrate.ts and migrate-stems.ts.                      *)

Create(t, cols) == <<[op |-> "create", table |-> t, cols |-> cols]>>
Add(t, cols, value) ==
  <<[op |-> "add", table |-> t, cols |-> cols, value |-> value]>>
Rename(t, to) == <<[op |-> "rename", table |-> t, to |-> to]>>
Drop(t) == <<[op |-> "drop", table |-> t]>>
Copy(t, to, cols) == <<[op |-> "copy", table |-> t, to |-> to, cols |-> cols]>>
Do(op) == <<[op |-> op]>>
Uuid(t) == <<[op |-> "uuid", table |-> t]>>

CREATE_SONG_PRESETS_V7 == Create("song_presets",
  (songPresets \ {"poly_accents", "poly_against", "ramp_length", "ramp_step",
                  "ramp_unit", "ramp_loop"}) \union {"ramp_bars"})
CREATE_SETLIST_ITEMS ==
  Create("setlist_items", {"id", "setlist_id", "song_preset_id", "position"})
CREATE_SUBDIVISION_ACCENTS ==
  Create("subdivision_accents", {"subdivision", "accents"})
CREATE_BPM_CACHE == Create("bpm_cache",
  {"id", "title", "artist", "bpm", "source", "fetched_at"})
CREATE_ROUTE_LATENCY == Create("route_latency", {"route", "offset_ms"})
CREATE_SETLISTS == Create("setlists", {"id", "name", "uuid", "active"})
CREATE_SONGS == Create("songs",
  {"id", "title", "artist", "file_path", "duration", "format", "created_at",
   "beat_grid", "downbeat_indices", "bpm", "waveform_path", "uuid"})
CREATE_TUNINGS == Create("tunings", {"id", "name", "notes", "uuid"})
CREATE_PRACTICE_SESSIONS == Create("practice_sessions",
  {"id", "start_time", "duration_seconds", "avg_bpm", "setlist_id",
   "songs_played"})
CREATE_STEM_SETS == Create("stem_sets", {"id", "name", "created_at", "uuid"})
CREATE_STEMS == Create("stems",
  {"id", "stem_set_id", "role", "file_path", "duration", "format",
   "channel_count", "sample_rate", "gain", "muted", "soloed", "sort_order"})

REPAIR_PRESETS == Do("repair presets")
DELETE_UNLOADABLE_TUNINGS == Do("delete unloadable tunings")
ADD_POLY_ACCENTS == Add("song_presets", {"poly_accents"}, "null")

MIGRATE_V6_TO_V7 ==
  Rename("songs", "song_presets_v6") \o Rename("library_songs", "songs")
  \o Add("songs", {"downbeat_indices"}, "null")
  \o Add("songs", {"uuid"}, "null") \o Uuid("songs")
  \o CREATE_SONG_PRESETS_V7
  \o Copy("song_presets_v6", "song_presets",
       {"id", "name", "bpm", "beats_per_bar", "subdivision", "accents",
        "poly_enabled", "poly_beats", "sound"})
  \o CREATE_SETLIST_ITEMS \o Do("items of song_presets_v6")
  \o Drop("song_presets_v6")
  \o Add("setlists", {"uuid"}, "null") \o Uuid("setlists")
  \o Add("tunings", {"uuid"}, "null") \o Uuid("tunings")
  \o Add("stem_sets", {"uuid"}, "null") \o Uuid("stem_sets")
  \o CREATE_SUBDIVISION_ACCENTS \o CREATE_BPM_CACHE \o CREATE_ROUTE_LATENCY

MIGRATE_V7_TO_V8 == Add("setlists", {"active"}, "default") \o ADD_POLY_ACCENTS

MIGRATE_V8_TO_V9 == REPAIR_PRESETS
  \o Add("practice_sessions", {"uuid"}, "null") \o Uuid("practice_sessions")

MIGRATE_V9_TO_V10 ==
  Add("tunings", {"instrument"}, "default") \o DELETE_UNLOADABLE_TUNINGS

MIGRATE_V10_TO_V11 == Create("preferences", {"key", "value"})

CREATE_SONG_PRESETS_V12 ==
  Create("song_presets_v12", songPresets \ {"poly_against", "ramp_step"})

CopyV12 == Copy("song_presets", "song_presets_v12",
             songPresets \ {"poly_against", "ramp_step", "ramp_unit", "ramp_loop"})

\* Mutant: the old table is moved out of the way before it is dropped.
MIGRATE_V11_TO_V12_Renaming == CREATE_SONG_PRESETS_V12 \o CopyV12
  \o Rename("song_presets", "song_presets_v11")
  \o Rename("song_presets_v12", "song_presets") \o Drop("song_presets_v11")
MIGRATE_V11_TO_V12 == CREATE_SONG_PRESETS_V12 \o CopyV12
  \o Drop("song_presets") \o Rename("song_presets_v12", "song_presets")

MIGRATE_V12_TO_V13 == Add("song_presets", {"ramp_step"}, "default")

MIGRATE_V13_TO_V14 == Add("songs", {"analysis_status"}, "pending")
  \o Do("analysed are done") \o Add("songs", {"analysis_error"}, "null")

MIGRATE_V14_TO_V15 ==
  Add("stem_sets", {"source", "speed"}, "default")
  \o Add("stem_sets", {"stemdeck_job_id", "key", "scale", "key_confidence",
       "bpm", "loudness_lufs", "tempo_stability", "beat_grid", "bar_marks",
       "sections", "lyrics_synced", "lyrics_plain", "lyrics_offset",
       "lyrics_instrumental", "lyrics_retimed", "sample_rate", "folder"}, "null")
  \o Add("stems", {"pitch"}, "default")
  \o Add("stems", {"waveform_path", "frames"}, "null")

MIGRATE_V15_TO_V16 == Add("stem_sets", {"song_title", "artist"}, "null")

MIGRATE_V16_TO_V17 ==
  Add("stem_sets", {"renamed"}, "default") \o Add("stems", {"name"}, "null")

MIGRATE_V17_TO_V18 == Add("song_presets", {"poly_against"}, "default")

MIGRATE_V18_TO_V19 == Add("route_latency", {"name", "kind"}, "null")

V11_BASELINE == CREATE_SETLISTS \o CREATE_SONGS \o CREATE_SONG_PRESETS_V7
  \o CREATE_SETLIST_ITEMS \o CREATE_TUNINGS \o CREATE_PRACTICE_SESSIONS
  \o CREATE_STEM_SETS \o CREATE_STEMS \o CREATE_SUBDIVISION_ACCENTS
  \o CREATE_BPM_CACHE \o CREATE_ROUTE_LATENCY \o ADD_POLY_ACCENTS
  \o MIGRATE_V8_TO_V9 \o MIGRATE_V9_TO_V10 \o MIGRATE_V10_TO_V11

BASELINE == V11_BASELINE \o MIGRATE_V11_TO_V12 \o MIGRATE_V12_TO_V13
  \o MIGRATE_V13_TO_V14 \o MIGRATE_V14_TO_V15 \o MIGRATE_V15_TO_V16
  \o MIGRATE_V16_TO_V17 \o MIGRATE_V17_TO_V18 \o MIGRATE_V18_TO_V19

\* UPGRADES[i] goes from version i to version i + 1.
UPGRADES == [i \in 6..18 |->
  <<MIGRATE_V6_TO_V7, MIGRATE_V7_TO_V8, MIGRATE_V8_TO_V9, MIGRATE_V9_TO_V10,
    MIGRATE_V10_TO_V11, MIGRATE_V11_TO_V12, MIGRATE_V12_TO_V13,
    MIGRATE_V13_TO_V14, MIGRATE_V14_TO_V15, MIGRATE_V15_TO_V16,
    MIGRATE_V16_TO_V17, MIGRATE_V17_TO_V18, MIGRATE_V18_TO_V19>>[i - 5]]

From(v, to) ==
  LET steps[i \in 6..to] == IF i = to THEN <<>> ELSE UPGRADES[i] \o steps[i + 1]
  IN  steps[IF v < 6 THEN 6 ELSE v]

\* Any version between 1 and 6 has the shape of 6.
\* Mutant: the step that leads to the file's own version runs again.
upgradeStepsAgain(v) ==
  IF v = 0 THEN BASELINE ELSE From(IF v > 6 THEN v - 1 ELSE v, SCHEMA_VERSION)
upgradeSteps(v) == IF v = 0 THEN BASELINE ELSE From(v, SCHEMA_VERSION)

-----------------------------------------------------------------------------
(* What a statement does.                                                  *)

\* The database refuses a second table or column of a name and a missing one.
Fits(s, db) ==
  LET has(t) == t \in DOMAIN db.tables
  IN  CASE s.op = "create" -> ~has(s.table)
        [] s.op = "add" -> has(s.table) /\ s.cols \intersect db.tables[s.table] = {}
        [] s.op = "rename" -> has(s.table) /\ ~has(s.to)
        [] s.op = "copy" -> has(s.table) /\ has(s.to) /\ s.cols \subseteq db.tables[s.to]
        [] s.op \in {"drop", "uuid"} -> has(s.table)
        [] OTHER -> TRUE

Without(f, k) == [x \in DOMAIN f \ {k} |-> f[x]]

OnRows(db, t, F(_)) == [db EXCEPT !.rows[t] = {F(r) : r \in @}]

\* A column the source lacks is ramp_bars on its way to ramp_length; one the
\* statement does not name takes its default.
CopyRow(r, cols, s) == [c \in cols |->
  IF c \in {"uuid"} \ s.cols THEN "own"
  ELSE IF c \notin s.cols THEN "default"
  ELSE IF c = "ramp_length" THEN r["ramp_bars"] ELSE r[c]]

\* Items follow their table's name through a rename; a table dropped with
\* foreign keys on takes the rows that point at its rows along.
Exec(s, db, keys) ==
  CASE s.op = "create" ->
         [db EXCEPT !.tables = @ @@ s.table :> s.cols, !.rows = @ @@ s.table :> {}]
    [] s.op = "add" ->
         OnRows([db EXCEPT !.tables[s.table] = @ \union s.cols], s.table,
                LAMBDA r : r @@ [c \in s.cols |-> s.value])
    [] s.op = "rename" ->
         [db EXCEPT !.tables = Without(@, s.table) @@ s.to :> @[s.table],
                    !.rows = Without(@, s.table) @@ s.to :> @[s.table],
                    !.ref = IF @ = s.table THEN s.to ELSE @]
    [] s.op = "drop" ->
         [db EXCEPT !.tables = Without(@, s.table),
                    !.rows = IF keys /\ db.ref = s.table
                               THEN [Without(@, s.table) EXCEPT !["setlist_items"] = {}]
                               ELSE Without(@, s.table)]
    [] s.op = "copy" ->
         [db EXCEPT !.rows[s.to] =
            {CopyRow(r, db.tables[s.to], s) : r \in db.rows[s.table]}]
    [] s.op = "uuid" ->
         OnRows(db, s.table, LAMBDA r :
                [r EXCEPT !["uuid"] = IF @ = "null" THEN "own" ELSE @])
    [] s.op = "repair presets" ->
         OnRows(db, "song_presets", LAMBDA r :
                [c \in DOMAIN r |-> IF r[c] = "odd" THEN "own" ELSE r[c]])
    [] s.op = "delete unloadable tunings" ->
         [db EXCEPT !.rows["tunings"] = {r \in @ : r["notes"] # "odd"}]
    [] s.op = "items of song_presets_v6" ->
         [db EXCEPT !.rows["setlist_items"] =
            {[id |-> r["id"], setlist_id |-> r["setlist_id"],
              song_preset_id |-> r["id"], position |-> r["position"]] :
             r \in db.rows["song_presets_v6"]}]
    [] s.op = "analysed are done" ->
         OnRows(db, "songs", LAMBDA r :
                [r EXCEPT !["analysis_status"] =
                   IF r["beat_grid"] # "null" THEN "done" ELSE @])
    [] s.op = "version" -> [db EXCEPT !.version = SCHEMA_VERSION]

\* The new version is written in the same transaction.
runStatements(statements) == statements \o Do("version")

-----------------------------------------------------------------------------
(* The files there are.                                                    *)

V6_DDL == [
  setlists |-> {"id", "name"},
  songs |-> {"id", "setlist_id", "position", "name", "bpm", "beats_per_bar",
    "subdivision", "accents", "poly_enabled", "poly_beats", "sound", "volume",
    "latency_offset"},
  tunings |-> {"id", "name", "notes"},
  library_songs |-> {"id", "title", "artist", "file_path", "duration",
    "format", "created_at", "beat_grid", "bpm", "waveform_path"},
  stem_sets |-> {"id", "name", "created_at"},
  stems |-> {"id", "stem_set_id", "role", "file_path", "duration", "format",
    "channel_count", "sample_rate", "gain", "muted", "soloed", "sort_order"},
  practice_sessions |-> {"id", "start_time", "duration_seconds", "avg_bpm",
    "setlist_id", "songs_played"}]

Row(cols, id) == [c \in cols |-> IF c = "id" THEN id ELSE "own"]

\* Two songs of a set, one out of bounds; two tunings, one unloadable; two
\* files, one analysed.
V6_DATA ==
  LET row(t, id) == Row(V6_DDL[t], id)
  IN  [version |-> 6, tables |-> V6_DDL, ref |-> "song_presets",
       rows |-> [t \in DOMAIN V6_DDL |->
         CASE t = "songs" ->
                {[row(t, "a") EXCEPT !["setlist_id"] = "a"],
                 [row(t, "b") EXCEPT !["setlist_id"] = "a", !["bpm"] = "odd"]}
           [] t = "tunings" -> {row(t, "a"), [row(t, "b") EXCEPT !["notes"] = "odd"]}
           [] t = "library_songs" -> {row(t, "a"), [row(t, "b") EXCEPT !["beat_grid"] = "null"]}
           [] OTHER -> {row(t, "a")}]]

Empty == [version |-> 0, tables |-> <<>>, rows |-> <<>>, ref |-> "song_presets"]

Fold(statements, db) ==
  LET after[i \in 0..Len(statements)] ==
        IF i = 0 THEN db ELSE Exec(statements[i], after[i - 1], FALSE)
  IN  after[Len(statements)]

\* A file of a version was left by the release of that version.
FileAt(v) == IF v = 0 THEN Empty
  ELSE [Fold(From(6, IF v < 6 THEN 6 ELSE v), V6_DATA) EXCEPT !.version = v]

-----------------------------------------------------------------------------
(* Opening it.                                                             *)

\* Mutant: foreign keys stay on while tables are renamed and dropped.
keysWhileMigratingOn == TRUE
keysWhileMigrating == FALSE

\* Foreign keys are a setting of the connection, off in a new one; migrate()
\* turns them on whether or not there was something to do.
\* Mutant: they are turned on after a migration only.
keysOnceOpenWhenMigrated(migrated) == migrated
keysOnceOpen(migrated) == TRUE

getDatabase ==
  /\ conn = "none"
  /\ IF disk.version < SCHEMA_VERSION
       THEN /\ conn' = "migrating" /\ work' = disk
            /\ todo' = runStatements(upgradeSteps(disk.version))
            /\ fk' = keysWhileMigrating
       ELSE /\ conn' = "open" /\ fk' = keysOnceOpen(FALSE)
            /\ UNCHANGED <<work, todo>>
  /\ UNCHANGED <<disk, first, deleted, faults>>

migrate ==
  /\ conn = "migrating"
  /\ IF todo # <<>>
       THEN /\ Fits(Head(todo), work)
            /\ work' = Exec(Head(todo), work, fk) /\ todo' = Tail(todo)
            /\ UNCHANGED <<disk, conn, fk>>
       ELSE /\ disk' = work /\ work' = Empty /\ conn' = "open"
            /\ fk' = keysOnceOpen(TRUE) /\ UNCHANGED todo
  /\ UNCHANGED <<first, deleted, faults>>

\* A statement or the commit fails and the connection is closed, or the
\* process dies: the transaction is rolled back and the next one who needs
\* the database starts over.
connectDatabase ==
  /\ conn # "none" /\ faults < MaxFaults /\ faults' = faults + 1
  /\ conn' = "none" /\ work' = Empty /\ todo' = <<>> /\ fk' = FALSE
  /\ UNCHANGED <<disk, first, deleted>>

\* A set is deleted alone: its items go by the cascade.
deleteSetlist ==
  /\ conn = "open"
  /\ \E r \in disk.rows["setlists"] :
       /\ disk' = [disk EXCEPT
            !.rows["setlists"] = @ \ {r},
            !.rows["setlist_items"] =
              {i \in @ : fk => i["setlist_id"] # r["id"]}]
       /\ deleted' = deleted \union {r["id"]}
  /\ UNCHANGED <<first, conn, work, todo, fk, faults>>

Init ==
  /\ \E v \in Versions : disk = FileAt(v)
  /\ first = disk
  /\ conn = "none" /\ work = Empty /\ todo = <<>> /\ fk = FALSE
  /\ deleted = {} /\ faults = 0

Next == getDatabase \/ migrate \/ connectDatabase \/ deleteSetlist

Spec == Init /\ [][Next]_vars

-----------------------------------------------------------------------------
(* Properties.                                                             *)

\* No statement is refused by the file it meets, and an open database has
\* every table and column the queries name and no other, its items pointing
\* at the table of that name.
OpenedIsCurrent ==
  /\ conn = "migrating" /\ todo # <<>> => Fits(Head(todo), work)
  /\ conn = "open" => 
       disk.version = SCHEMA_VERSION /\ disk.tables = schema /\ disk.ref = "song_presets"

Presets(db) == IF db.version \in 1..6 THEN db.rows["songs"] ELSE db.rows["song_presets"]
Songs(db) == IF db.version \in 1..6 THEN db.rows["library_songs"] ELSE db.rows["songs"]

\* What the user had is there: each song with its values and in its set,
\* but for what was repaired, each tuning that can be loaded, and an
\* analysed file as analysed.
RowsSurvive ==
  conn = "open" /\ first.version # 0 =>
    /\ \A r \in Presets(first) :
         /\ \E q \in disk.rows["song_presets"] :
              /\ q["id"] = r["id"] /\ q["uuid"] # "null"
              /\ \A c \in DOMAIN r \intersect DOMAIN q :
                   q[c] = IF r[c] = "odd" THEN "own" ELSE r[c]
              /\ "ramp_bars" \in DOMAIN r => q["ramp_length"] = r["ramp_bars"]
         /\ deleted = {} => \E i \in disk.rows["setlist_items"] : i["song_preset_id"] = r["id"]
    /\ \A r \in first.rows["tunings"] :
         (\E q \in disk.rows["tunings"] : q["id"] = r["id"]) <=> r["notes"] # "odd"
    /\ \A r \in Songs(first) : \E q \in disk.rows["songs"] :
         /\ q["id"] = r["id"] /\ q["uuid"] # "null"
         /\ (q["analysis_status"] = "done") <=> (r["beat_grid"] # "null")

\* No item is left of a set, or of a song, that is gone.
NoOrphans ==
  conn = "open" => \A i \in disk.rows["setlist_items"] :
    /\ \E r \in disk.rows["setlists"] : r["id"] = i["setlist_id"]
    /\ \E r \in disk.rows["song_presets"] : r["id"] = i["song_preset_id"]
=============================================================================
