----------------------------- MODULE MCLibrary -----------------------------
(* What the app stores, each part of it run alone from its own initial states: *)
(* the song library, the analysis of a song, the stem bundles, Home's tools,    *)
(* the storage sheet, backup and restore, the database's migrations.  A         *)
(* behaviour is of the one part that "part" names: of StorageSheet in its own   *)
(* variables, of another in v1, v2, ..., in the order of its module, which are  *)
(* 0 past its last.                                                             *)
(*                                                                              *)
(* StorageSheet has two rows, removed while the sheet is read twice.            *)
EXTENDS StorageSheet, Integers, Sequences, FiniteSets, TLC

CONSTANTS s1, j1, lyricsA, lyricsB, f1, f2

\* "none" is the song of no analysis.
ASSUME LibraryAssumption == s1 # "none"

VARIABLES
  part,  \* which of them runs
  v1, v2, v3, v4, v5, v6, v7, v8, v9, v10, v11, v12, v13, v14, v15, v16,
  v17, v18

TwoSongs == (1 :> [bpm |-> 60, ramp |-> FALSE]) @@ (2 :> [bpm |-> 90, ramp |-> TRUE])
TwoItems == (1 :> [set |-> 1, song |-> 1, pos |-> 0])
            @@ (2 :> [set |-> 1, song |-> 2, pos |-> 1])

\* Two songs in one setlist, and a setlist without any.
SongList == INSTANCE SongLibrary WITH
       FirstSongs <- TwoSongs, FirstSets <- {1, 2}, FirstItems <- TwoItems,
       Tempos <- {60, 90}, MaxSong <- 3, MaxItem <- 5, MaxSet <- 3,
       MaxTaps <- 2, MaxFaults <- 1, db <- v1, mem <- v2, results <- v3,
       live <- v4, loaded <- v5, discarded <- v6, played <- v7, queue <- v8,
       order <- v9, sheet <- v10, editor <- v11, taps <- v12, faults <- v13,
       turns <- v14

\* Two empty setlists and no song, for longer: a refresh, and both deleted.
SetList == INSTANCE SongLibrary WITH
       FirstSongs <- << >>, FirstSets <- {1, 2}, FirstItems <- << >>,
       Tempos <- {60}, MaxSong <- 0, MaxItem <- 0, MaxSet <- 2, MaxTaps <- 3,
       MaxFaults <- 0, db <- v1, mem <- v2, results <- v3, live <- v4,
       loaded <- v5, discarded <- v6, played <- v7, queue <- v8, order <- v9,
       sheet <- v10, editor <- v11, taps <- v12, faults <- v13, turns <- v14

\* One song, imported, analysed and deleted, with one failure or one death of the
\* process.  This and the stem library are instances of the modules of their proofs,
\* so that their theorems say of this run what LibraryProofs takes from them.
Analysis == INSTANCE SongAnalysisProofs WITH
       Songs <- {s1}, MaxTaps <- 2, MaxFaults <- 1, row <- v1, work <- v2,
       holder <- v3, marker <- v4, results <- v5, removing <- v6, events <- v7,
       calls <- v8, answered <- v9, shown <- v10, app <- v11, unread <- v12,
       listFailed <- v13, taps <- v14, faults <- v15, died <- v16,
       missed <- v17, unstored <- v18

\* ... and imported once, with a failure beside the two deaths that give a song up.
Deaths == INSTANCE SongAnalysisProofs WITH
       Songs <- {s1}, MaxTaps <- 1, MaxFaults <- 3, row <- v1, work <- v2,
       holder <- v3, marker <- v4, results <- v5, removing <- v6, events <- v7,
       calls <- v8, answered <- v9, shown <- v10, app <- v11, unread <- v12,
       listFailed <- v13, taps <- v14, faults <- v15, died <- v16,
       missed <- v17, unstored <- v18

\* One bundle with two versions of its lyrics, in two flows at a time.
StemSongs == INSTANCE StemLibraryProofs WITH
       Jobs <- {j1}, Lyrics <- {lyricsA, lyricsB}, Flows <- {f1, f2}, MaxTaps <- 2,
       MaxFaults <- 1, sets <- v1, nextId <- v2, disk <- v3, flow <- v4,
       sweep <- v5, pending <- v6, shown <- v7, load <- v8, notice <- v9,
       picking <- v10, menu <- v11, query <- v12, taps <- v13,
       faults <- v14, crossed <- v15, undeleted <- v16

\* ... and in one, for longer.
StemNames == INSTANCE StemLibraryProofs WITH
       Jobs <- {j1}, Lyrics <- {lyricsA, lyricsB}, Flows <- {f1}, MaxTaps <- 3,
       MaxFaults <- 0, sets <- v1, nextId <- v2, disk <- v3, flow <- v4,
       sweep <- v5, pending <- v6, shown <- v7, load <- v8, notice <- v9,
       picking <- v10, menu <- v11, query <- v12, taps <- v13,
       faults <- v14, crossed <- v15, undeleted <- v16

Drags == {-3, -1, 1, 2}
ThreeTools == <<"metronome", "tuner", "stems">>
\* Stored by a version without stems, with a tool and a size of its own.
OtherVersion ==
  {<<[tool |-> "tuner", size |-> "3x3", hidden |-> FALSE],
     [tool |-> "gone", size |-> "1x1", hidden |-> FALSE],
     [tool |-> "metronome", size |-> "2x1", hidden |-> TRUE]>>}

Home == INSTANCE HomeTools WITH
       Roster <- ThreeTools, Stoppable <- {"metronome", "stems"},
       Stays <- {"metronome"}, Older <- OtherVersion, Travels <- Drags,
       Pitches <- {0, 2}, MaxOps <- 2, MaxDepth <- 3, MaxRestarts <- 1,
       saved <- v1, off <- v2, last <- v3, drop <- v4, arranging <- v5,
       stack <- v6, sounding <- v7, disk <- v8, writes <- v9, ops <- v10,
       restarts <- v11

\* The rows and files a backup is made of; only the operators without variables.
Unedited(d) == {d}
Kinds == INSTANCE Backup WITH
       Locals <- {}, Files <- {}, Edited <- Unedited, MaxRequests <- 0,
       MaxEdits <- 0, db <- v1, restore <- v2, request <- v3, calls <- v4,
       screen <- v5, sheet <- v6, picking <- v7, edits <- v8, last <- v9

\* One song, two presets, a setlist of them with a practice session on it,
\* and a second setlist: the smallest library with a link and a setlist item
\* of each kind that a restore can carry, cut or find gone.
Plainly(body) == Kinds!Row(body, "none", <<>>, FALSE)
OneSong == [k \in {"s1"} |-> Plainly("a")]
Preset(body, ref) == [Plainly(body) EXCEPT !.ref = ref]
Setlist(items, active) == [Plainly("a") EXCEPT !.items = items, !.active = active]
Practice(ref) == [k \in {"r1"} |-> [Plainly("a") EXCEPT !.ref = ref]]

Library(songs, presets, setlists, practice) ==
  [c \in Kinds!Categories |->
     CASE c = "librarySongs" -> songs
       [] c = "songPresets" -> presets
       [] c = "setlists" -> setlists
       [] c = "practiceSessions" -> practice
       [] OTHER -> Kinds!NoTable]

\* The library the backups were taken of, and an edit of each kind away from it.
Whole ==
  Library(OneSong, [k \in {"p1", "p2"} |-> Preset("a", IF k = "p1" THEN "s1" ELSE "none")],
          [k \in {"l1"} |-> Setlist(<<"p1", "p2", "p1">>, TRUE)], Practice("l1"))
Changed ==
  Library(OneSong, [k \in {"p1"} |-> Preset("b", "s1")],
          [k \in {"l1"} |-> Setlist(<<"p1">>, FALSE)], Practice("l1"))
Other ==
  Library(Kinds!NoTable, [k \in {"p2"} |-> Preset("a", "none")],
          [k \in {"l2"} |-> Setlist(<<"p2">>, TRUE)], Practice("l2"))

Locals == {Kinds!EmptyDatabase, Whole, Changed, Other}

\* A file of all, of the settings' default selection without its songs, of one
\* setlist, and one whose setlist names a preset it does not hold, and one
\* that cannot be read.
Files ==
  {Kinds!export(Whole, Kinds!Categories), Kinds!export(Whole, {"setlists", "practiceSessions"}),
   Kinds!exportSetlist(Changed, "l1"),
   [Kinds!export(Whole, {"setlists"}) EXCEPT !.records["songPresets"] = Kinds!NoTable],
   [Kinds!export(Changed, Kinds!Categories) EXCEPT !.readable = FALSE]}

WithoutPreset(d, k) ==
  [d EXCEPT !["songPresets"] = [x \in DOMAIN @ \ {k} |-> @[x]],
            !["setlists"] = [x \in DOMAIN @ |->
              [@[x] EXCEPT !.items = SelectSeq(@, LAMBDA p : p # k)]]]
WithoutSetlist(d, k) ==
  [d EXCEPT !["setlists"] = [x \in DOMAIN @ \ {k} |-> @[x]],
            !["practiceSessions"] = [x \in DOMAIN @ |->
              [@[x] EXCEPT !.ref = IF @ = k THEN "none" ELSE @]]]
Renamed(d, c, k) == [d EXCEPT ![c][k].body = "mine"]
Activated(d, k) ==
  [d EXCEPT !["setlists"] = [x \in DOMAIN @ |-> [@[x] EXCEPT !.active = x = k]]]
WithSong(d) == [d EXCEPT !["librarySongs"] = OneSong]

\* What one command of a repository leaves.
Edited(d) ==
  {WithoutPreset(d, k) : k \in DOMAIN d["songPresets"]}
    \cup {WithoutSetlist(d, k) : k \in DOMAIN d["setlists"]}
    \cup {Renamed(d, "songPresets", k) : k \in DOMAIN d["songPresets"]}
    \cup {Activated(d, k) : k \in DOMAIN d["setlists"] \cup {"none"}}
    \cup {WithSong(d)}

Backups == INSTANCE Backup WITH
       Locals <- Locals, Files <- Files, Edited <- Edited, MaxRequests <- 4,
       MaxEdits <- 1, db <- v1, restore <- v2, request <- v3, calls <- v4,
       screen <- v5, sheet <- v6, picking <- v7, edits <- v8, last <- v9

\* Every version whose file differs from those before it.
Database == INSTANCE Migrations WITH
       Versions <- 0 .. 19 \ {1, 2, 4, 5}, MaxFaults <- 2, disk <- v1,
       first <- v2, conn <- v3, work <- v4, todo <- v5, fk <- v6,
       deleted <- v7, faults <- v8

-----------------------------------------------------------------------------
Rest17 == <<v17, v18>>
Rest15 == <<v15, v16, Rest17>>
Rest12 == <<v12, v13, v14, Rest15>>
Rest10 == <<v10, v11, Rest12>>
Rest9 == <<v9, Rest10>>
Rest1 == <<v1, v2, v3, v4, v5, v6, v7, v8, Rest9>>

Free17 == v17 = 0 /\ v18 = 0
Free15 == v15 = 0 /\ v16 = 0 /\ Free17
Free12 == v12 = 0 /\ v13 = 0 /\ v14 = 0 /\ Free15
Free10 == v10 = 0 /\ v11 = 0 /\ Free12
Free9 == v9 = 0 /\ Free10
Free1 == v1 = 0 /\ v2 = 0 /\ v3 = 0 /\ v4 = 0 /\ v5 = 0 /\ v6 = 0 /\ v7 = 0
  /\ v8 = 0 /\ Free9

allVars == <<part, vars, Rest1>>

MCInit ==
  /\ Init
  /\ \/ part = "storage" /\ Free1
     \/ part = "songs" /\ SongList!Init /\ Free15
     \/ part = "sets" /\ SetList!Init /\ Free15
     \/ part = "analysis" /\ Analysis!Init
     \/ part = "deaths" /\ Deaths!Init
     \/ part = "stems" /\ StemSongs!Init /\ Free17
     \/ part = "names" /\ StemNames!Init /\ Free17
     \/ part = "home" /\ Home!Init /\ Free12
     \/ part = "backup" /\ Backups!Init /\ Free10
     \/ part = "database" /\ Database!Init /\ Free9

Others ==
  \/ part = "songs" /\ SongList!Next /\ UNCHANGED Rest15
  \/ part = "sets" /\ SetList!Next /\ UNCHANGED Rest15
  \/ part = "analysis" /\ Analysis!Next
  \/ part = "deaths" /\ Deaths!Next
  \/ part = "stems" /\ StemSongs!Next /\ UNCHANGED Rest17
  \/ part = "names" /\ StemNames!Next /\ UNCHANGED Rest17
  \/ part = "home" /\ Home!Next /\ UNCHANGED Rest12
  \/ part = "backup" /\ Backups!Next /\ UNCHANGED Rest10
  \/ part = "database" /\ Database!Next /\ UNCHANGED Rest9

MCNext ==
  /\ UNCHANGED part
  /\ \/ part = "storage" /\ Next /\ UNCHANGED Rest1
     \/ Others /\ UNCHANGED vars

MCSpec == MCInit /\ [][MCNext]_allVars

-----------------------------------------------------------------------------
(* Each property is that of the part's module, which says what it is about;     *)
(* StorageSheet's are checked as they are.                                      *)

\* Once every overlapping load, leave and edit of the song library is answered,
\* the set on stage is that of the song that plays, and the screens show what
\* the database stores, unless a refresh begun before two setlists were deleted
\* has landed last (library/store.ts, snapshot.ts).
LibraryIsAsStored ==
  /\ part = "songs" => SongList!StageFollowsSong /\ SongList!ShownIsStored
  /\ part = "sets" => SetList!StageFollowsSong /\ SetList!ShownIsStored

\* A song waits for its analysis only while one is to come, or a failure keeps it
\* from it until the next start; and it is given up only after its own runs died
\* with the process or could not be marked (songLibrary/store.ts, AnalysisStore.kt).
AnalysisComesToAnEnd ==
  /\ part = "analysis" => Analysis!AnalysisAttended /\ Analysis!BlamedFairly
  /\ part = "deaths" => Deaths!AnalysisAttended /\ Deaths!BlamedFairly

\* Songs and their files come and go together, and times stay with the lyrics
\* they were tapped for, through imports, replacements, deletions and sweeps
\* that fail, cross or die with the process (stems/).
StemFilesKept ==
  /\ part = "stems" => /\ StemSongs!FilesKept
                       /\ StemSongs!FilesFreed
                       /\ StemSongs!TimesFit
  /\ part = "names" => /\ StemNames!FilesKept
                       /\ StemNames!FilesFreed
                       /\ StemNames!TimesFit

\* Home shows every tool that is on once, one that is off is silent, and a
\* restart finds what was shown (core-state homeLayout, tools, preferences).
HomeIsKept ==
  part = "home" => /\ Home!HomeIsWhole
                   /\ Home!OffIsSilent
                   /\ Home!StoredIsShown

\* A restore leaves a whole database that holds what its review said, and a
\* backup holds every row its rows lead to (core-state backup/).
BackupKeepsItsWord ==
  part = "backup" => /\ Backups!DatabaseWhole
                     /\ Backups!RestoreKeepsItsWord
                     /\ Backups!BackupIsComplete

\* From whatever version a file is at, and however often its upgrade failed or
\* died, an open database is current, lost no row but those its user deleted,
\* and holds no item of a set that is gone (core-db migrate.ts, client.ts).
UpgradesKeepRows ==
  part = "database" => /\ Database!OpenedIsCurrent
                       /\ Database!RowsSurvive
                       /\ Database!NoOrphans

\* What one step may never do: let go of unsaved edits that Undo does not bring
\* back; take a beat grid away for an analysis that failed; rename a song by
\* replacing it; move a tool that is off, or more than the one dragged; go back
\* to an earlier count of practice sessions.
StepsKeep ==
  [][ /\ part = "songs" => SongList!EditsKept
      /\ part = "sets" => SetList!EditsKept
      /\ part = "analysis" => Analysis!GridKept
      /\ part = "deaths" => Deaths!GridKept
      /\ part = "stems" => StemSongs!NamesKept
      /\ part = "names" => StemNames!NamesKept
      /\ part = "home" => Home!EditsLand
      /\ part = "storage" => StatsGoOn ]_allVars
=============================================================================
