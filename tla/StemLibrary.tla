----------------------------- MODULE StemLibrary -----------------------------
(***************************************************************************)
(* The library of stem songs: the stem_sets table, the folders on disk, the *)
(* store that imports, replaces, renames and deletes songs in asynchronous  *)
(* flows, the sweep of orphaned folders at the start of the app, and the    *)
(* library screen with its sheets (core-state's songLibrary, core-db's stem *)
(* bundles, tool-library).  A flow is one call of the store; each of its     *)
(* awaits is a step, and the process may die between any two.               *)
(*                                                                         *)
(* A bundle is a job and the version of its lyrics; its stems, names and    *)
(* facts go with it and are not told apart.                                 *)
(***************************************************************************)
EXTENDS Naturals, FiniteSets

CONSTANTS Jobs,        \* StemDeck jobs whose bundles the user has
          Lyrics,      \* versions of a bundle's lyrics
          Flows,       \* flows that may be under way at one time
          MaxTaps,     \* bound: what the user does
          MaxFaults    \* bound: calls that fail, and deaths of the process

None == "none"
NAMES == {1, 2}        \* numbers uniqueFileName gives to folders of one job

VARIABLES sets,        \* the stem_sets rows
          nextId,      \* SQLite's next row id
          disk,        \* folders under stems/
          flow,        \* [Flows -> what each is at]
          sweep,       \* the sweep of this start
          pending,     \* the bundle that waits for "Replace", or NoBundle
          shown,       \* the rows the store last read
          load,        \* "loading", "ready" or "failed"
          notice,      \* the notice card
          picking,     \* the system picker is open
          menu,        \* the sheet that is open and the row it is for
          query,       \* the search: a job it admits, or none
          taps, faults,
          crossed,     \* ghost: a name was taken again while a delete of it waited
          undeleted    \* ghost: folders this process failed to delete

vars == <<sets, nextId, disk, flow, sweep, pending, shown, load, notice, picking,
          menu, query, taps, faults, crossed, undeleted>>
table == <<sets, nextId>>
screen == <<shown, load, notice, picking, menu, query>>

-----------------------------------------------------------------------------
(* Rows and folders.                                                       *)

Folder(job, n) == <<job, n>>
Bundle(job, lyrics) == [job |-> job, lyrics |-> lyrics]
NoBundle == Bundle(None, None)
NoRow == [id |-> 0, job |-> None, lyrics |-> None, folder |-> Folder(None, 0),
          renamed |-> FALSE, retimed |-> None]

Folders(rows) == {r.folder : r \in rows}

\* moveIntoPlace: the first name of the job that is not on disk.
moveIntoPlace(job) ==
  Folder(job, CHOOSE n \in NAMES : /\ Folder(job, n) \notin disk
                                   /\ \A m \in NAMES : m < n => Folder(job, m) \in disk)

findStemSetByJobId(job) == {r \in sets : r.job = job}

insertStemBundle(bundle, folder) ==
  [id |-> nextId, job |-> bundle.job, lyrics |-> bundle.lyrics, folder |-> folder,
   renamed |-> FALSE, retimed |-> None]

\* The user's names.
applyUserNames(row, old) == [row EXCEPT !.renamed = old.renamed]

\* Mutant: times are kept whatever the lyrics.
retainedAlways(old, bundle) == old.retimed

\* The user's times stand for the lyrics they were made on.
retainedRetime(old, bundle) == IF old.lyrics = bundle.lyrics THEN old.retimed ELSE None

\* Mutant: the copy takes the file's names.
replacedBare(old, bundle, folder) ==
  [insertStemBundle(bundle, folder) EXCEPT !.retimed = retainedRetime(old, bundle)]

replaceStemBundle(old, bundle, folder) ==
  [applyUserNames(insertStemBundle(bundle, folder), old)
     EXCEPT !.retimed = retainedRetime(old, bundle)]

-----------------------------------------------------------------------------
(* Flows.                                                                  *)

NoFlow == [kind |-> None, at |-> "done", id |-> 0, bundle |-> NoBundle,
           folder |-> Folder(None, 0), replace |-> FALSE]

At(f, at) == flow[f].at = at
Goes(f, at) == flow' = [flow EXCEPT ![f].at = at]
Ends(f) == flow' = [flow EXCEPT ![f] = NoFlow]

\* A flow the user starts takes what is free.
Begins(start) == \E f \in Flows : flow[f] = NoFlow /\ flow' = [flow EXCEPT ![f] = start]

\* importTracker: copies that are stored or undone.
Tracked(fl) == \E f \in Flows : fl[f].at \in {"copying", "storing", "undoing", "clearing"}
                                /\ fl[f].kind = "import"
Importing == \E f \in Flows : flow[f].kind = "import" /\ ~At(f, "refreshing")

Off == [at |-> "off", idle |-> FALSE, onDisk |-> {}, orphans |-> {}]

Init ==
  /\ sets = {} /\ nextId = 1 /\ disk = {}
  /\ flow = [f \in Flows |-> NoFlow]
  /\ sweep = Off
  /\ pending = NoBundle
  /\ shown = {} /\ load = "loading" /\ notice = None /\ picking = FALSE
  /\ menu = [kind |-> None, target |-> NoRow]
  /\ query = None
  /\ taps = 0 /\ faults = 0
  /\ crossed = FALSE /\ undeleted = {}

Fault == faults < MaxFaults /\ faults' = faults + 1
NoFault == UNCHANGED faults

\* A bundle is copied and stored from here on: the sweep no longer trusts what it saw.
Starts(f, replace, bundle) ==
  /\ flow' = [flow EXCEPT ![f] = [NoFlow EXCEPT !.kind = "import", !.at = "copying",
                                    !.bundle = bundle, !.replace = replace]]
  /\ sweep' = [sweep EXCEPT !.idle = FALSE]

\* examine: a bundle that cannot be read or is not one is refused.
Check(f) ==
  /\ At(f, "checking")
  /\ \/ NoFault /\ Goes(f, "finding") /\ UNCHANGED notice
     \/ Fault /\ Ends(f) /\ notice' = "bundleRefused"
  /\ UNCHANGED <<table, disk, sweep, pending, shown, load, picking, menu, query,
                 taps, crossed, undeleted>>

\* findExisting: a song of the same job is replaced only when the user says so; a
\* lookup that fails finds none.
Find(f) ==
  /\ At(f, "finding")
  /\ LET b == flow[f].bundle
         existing == findStemSetByJobId(b.job)
     IN \/ existing # {} /\ NoFault /\ Ends(f) /\ pending' = b /\ UNCHANGED sweep
        \/ existing = {} /\ NoFault /\ Starts(f, FALSE, b) /\ UNCHANGED pending
        \/ Fault /\ Starts(f, FALSE, b) /\ UNCHANGED pending
  /\ UNCHANGED <<table, disk, screen, taps, crossed, undeleted>>

\* Folders somebody is still to delete.
Doomed == sweep.orphans \union
          {flow[f].folder : f \in {g \in Flows : flow[g].at \in {"clearing", "listing"}}}

\* copyBundle.
Copy(f) ==
  /\ At(f, "copying")
  /\ \/ /\ NoFault
        /\ \E n \in NAMES : Folder(flow[f].bundle.job, n) \notin disk
        /\ LET folder == moveIntoPlace(flow[f].bundle.job)
           IN /\ disk' = disk \union {folder}
              /\ crossed' = (crossed \/ folder \in Doomed)
              /\ flow' = [flow EXCEPT ![f].at = "storing", ![f].folder = folder]
        /\ UNCHANGED notice
     \/ /\ Fault /\ Goes(f, "refreshing")
        /\ notice' = "copyFailed"
        /\ UNCHANGED <<disk, crossed>>
  /\ UNCHANGED <<table, sweep, pending, shown, load, picking, menu, query, taps,
                 undeleted>>

\* persistBundle: the unique job refuses a second row, and a failed store undoes
\* the copy.
Store(f) ==
  /\ At(f, "storing")
  /\ LET b == flow[f].bundle
         existing == findStemSetByJobId(b.job)
     IN \/ /\ existing = {} /\ NoFault
           /\ sets' = sets \union {insertStemBundle(b, flow[f].folder)}
           /\ nextId' = nextId + 1
           /\ Goes(f, "refreshing") /\ UNCHANGED notice
        \/ /\ existing # {} /\ flow[f].replace /\ NoFault
           /\ \E old \in existing :
                /\ sets' = (sets \ {old}) \union
                           {replaceStemBundle(old, b, flow[f].folder)}
                /\ flow' = [flow EXCEPT ![f].at = "clearing", ![f].folder = old.folder]
           /\ nextId' = nextId + 1 /\ UNCHANGED notice
        \/ /\ \/ existing # {} /\ ~flow[f].replace /\ NoFault
              \/ Fault
           /\ Goes(f, "undoing") /\ notice' = "addFailed"
           /\ UNCHANGED table
  /\ UNCHANGED <<disk, sweep, pending, shown, load, picking, menu, query, taps,
                 crossed, undeleted>>

\* deleteLeftovers of one folder: a failure costs only space.
Removed(folder) ==
  \/ NoFault /\ disk' = disk \ {folder} /\ UNCHANGED undeleted
  \/ Fault /\ undeleted' = undeleted \union {folder} /\ UNCHANGED disk

Undo(f) ==
  /\ At(f, "undoing") /\ Removed(flow[f].folder) /\ Goes(f, "refreshing")
  /\ UNCHANGED <<table, sweep, pending, screen, taps, crossed>>

\* ... and of the replaced song, or the deleted one, the row of which is gone.
Clear(f) ==
  /\ At(f, "clearing") /\ Removed(flow[f].folder)
  /\ IF flow[f].kind = "import" THEN Goes(f, "refreshing") ELSE Ends(f)
  /\ UNCHANGED <<table, sweep, pending, screen, taps, crossed>>

\* refresh: what was read, or a screen that says it could not.
Refresh(f) ==
  /\ flow[f].at \in {"refreshing", "listing"}
  /\ \/ NoFault /\ shown' = sets /\ load' = "ready"
     \/ Fault /\ load' = "failed" /\ UNCHANGED shown
  /\ IF At(f, "listing") THEN Goes(f, "clearing") ELSE Ends(f)
  /\ UNCHANGED <<table, disk, sweep, pending, notice, picking, menu, query, taps,
                 crossed, undeleted>>

\* deleteStemSet: a row that is gone leaves nothing to remove.
Delete(f) ==
  /\ At(f, "deleting")
  /\ LET found == {r \in sets : r.id = flow[f].id}
     IN \/ /\ NoFault /\ sets' = sets \ found
           /\ IF found = {} THEN Goes(f, "refreshing")
              ELSE \E r \in found :
                     flow' = [flow EXCEPT ![f].at = "listing", ![f].folder = r.folder]
           /\ UNCHANGED notice
        \/ Fault /\ Ends(f) /\ notice' = "deleteFailed" /\ UNCHANGED sets
  /\ UNCHANGED <<nextId, disk, sweep, pending, shown, load, picking, menu, query,
                 taps, crossed, undeleted>>

\* renameStemSet, by id.
Rename(f) ==
  /\ At(f, "renaming")
  /\ \/ /\ NoFault /\ Goes(f, "refreshing") /\ UNCHANGED notice
        /\ sets' = {IF r.id = flow[f].id THEN [r EXCEPT !.renamed = TRUE] ELSE r : r \in sets}
     \/ Fault /\ Ends(f) /\ notice' = "renameFailed" /\ UNCHANGED sets
  /\ UNCHANGED <<nextId, disk, sweep, pending, shown, load, picking, menu, query,
                 taps, crossed, undeleted>>

\* saveLyricsRetimed: the player saves times for the row it opened, which may be
\* gone by the time they are stored.
Retime(f) ==
  /\ At(f, "retiming")
  /\ sets' = {IF r.id = flow[f].id THEN [r EXCEPT !.retimed = flow[f].bundle.lyrics]
                                   ELSE r : r \in sets}
  /\ Ends(f)
  /\ UNCHANGED <<nextId, disk, sweep, pending, screen, taps, faults, crossed,
                 undeleted>>

FlowStep(f) == \/ Check(f) \/ Find(f) \/ Copy(f) \/ Store(f) \/ Undo(f) \/ Clear(f)
               \/ Refresh(f) \/ Delete(f) \/ Rename(f) \/ Retime(f)

-----------------------------------------------------------------------------
(* The sweep: folders no row has are left of a process that died between a  *)
(* copy and its row.                                                        *)

\* idleMark.
SweepBegins ==
  /\ sweep.at = "off"
  /\ sweep' = IF Tracked(flow) THEN [Off EXCEPT !.at = "skipped"]
                               ELSE [Off EXCEPT !.at = "disk", !.idle = TRUE]
  /\ UNCHANGED <<table, disk, flow, pending, screen, taps, faults, crossed, undeleted>>

SweepDisk ==
  /\ sweep.at = "disk"
  /\ \/ NoFault /\ sweep' = [sweep EXCEPT !.at = "table", !.onDisk = disk]
     \/ Fault /\ sweep' = [Off EXCEPT !.at = "skipped"]
  /\ UNCHANGED <<table, disk, flow, pending, screen, taps, crossed, undeleted>>

\* Mutant: what ran since is not looked at.
stillIdleNot == TRUE

stillIdleSince == sweep.idle /\ ~Tracked(flow)

SweepTable ==
  /\ sweep.at = "table"
  /\ LET orphans == sweep.onDisk \ Folders(sets)
     IN sweep' = IF ~stillIdleSince THEN [Off EXCEPT !.at = "skipped"]
                 ELSE IF orphans = {} THEN [Off EXCEPT !.at = "swept"]
                 ELSE [Off EXCEPT !.at = "deleting", !.orphans = orphans]
  /\ UNCHANGED <<table, disk, flow, pending, screen, taps, faults, crossed, undeleted>>

\* One after the other, and the rest is left when one fails.
SweepDelete ==
  /\ sweep.at = "deleting"
  /\ \/ /\ NoFault
        /\ \E folder \in sweep.orphans :
             /\ disk' = disk \ {folder}
             /\ sweep' = IF sweep.orphans = {folder} THEN [Off EXCEPT !.at = "swept"]
                         ELSE [sweep EXCEPT !.orphans = @ \ {folder}]
        /\ UNCHANGED undeleted
     \/ /\ Fault
        /\ undeleted' = undeleted \union sweep.orphans
        /\ sweep' = [Off EXCEPT !.at = "swept"]
        /\ UNCHANGED disk
  /\ UNCHANGED <<table, flow, pending, screen, taps, crossed>>

Sweep == SweepBegins \/ SweepDisk \/ SweepTable \/ SweepDelete

-----------------------------------------------------------------------------
(* The screen and the user.                                                *)

Tap == taps < MaxTaps /\ taps' = taps + 1
rest == <<table, disk, sweep, faults, crossed, undeleted>>

viewState ==
  CASE load = "failed" -> "failed"
    [] load = "loading" -> "loading"
    [] OTHER -> IF shown # {} \/ Importing THEN "list" ELSE "empty"

\* filterRows: the rows the search admits.
filterRows == {r \in shown : query = None \/ r.job = query}

NoSheet == menu.kind = None /\ pending = NoBundle
closed == [menu EXCEPT !.kind = None]

\* The screen is entered, or its list tried again: the search is cleared and the
\* rows are read.
Enter ==
  /\ load \in {"loading", "failed"} /\ NoSheet
  /\ Begins([NoFlow EXCEPT !.kind = "list", !.at = "refreshing"])
  /\ query' = None
  /\ UNCHANGED <<rest, pending, shown, load, notice, picking, menu, taps>>

\* SearchBar: editable while no sheet covers it.
Search ==
  /\ viewState = "list" /\ NoSheet
  /\ query' \in Jobs \union {None}
  /\ UNCHANGED <<rest, flow, pending, shown, load, notice, picking, menu, taps>>

\* importStemFolder, from the floating button or the empty screen: one picker.
Pick ==
  /\ viewState \in {"list", "empty"} /\ NoSheet /\ ~picking
  /\ picking' = TRUE /\ notice' = None
  /\ UNCHANGED <<rest, flow, pending, shown, load, menu, query, taps>>

Picked ==
  /\ picking /\ picking' = FALSE
  /\ \/ /\ Tap /\ NoFault /\ UNCHANGED notice
        /\ \E job \in Jobs, lyrics \in Lyrics :
             Begins([NoFlow EXCEPT !.kind = "import", !.at = "checking",
                                   !.bundle = Bundle(job, lyrics)])
     \/ UNCHANGED <<flow, taps, notice>> /\ NoFault
     \/ Fault /\ notice' = "pickerFailed" /\ UNCHANGED <<flow, taps>>
  /\ UNCHANGED <<table, disk, sweep, pending, shown, load, menu, query, crossed,
                 undeleted>>

\* ReplaceSheet.
confirmReplace ==
  /\ pending # NoBundle
  /\ \E f \in Flows : flow[f] = NoFlow /\ Starts(f, TRUE, pending)
  /\ pending' = NoBundle
  /\ UNCHANGED <<table, disk, screen, taps, faults, crossed, undeleted>>

cancelReplace ==
  /\ pending # NoBundle /\ pending' = NoBundle
  /\ UNCHANGED <<rest, flow, screen, taps>>

\* LibraryMenu: the sheet of a row goes on showing the row it was opened on.
OpenActions ==
  /\ viewState = "list" /\ NoSheet
  /\ \E r \in filterRows : menu' = [kind |-> "actions", target |-> r]
  /\ UNCHANGED <<rest, flow, pending, shown, load, notice, picking, query, taps>>

ActionsSheet ==
  /\ menu.kind = "actions"
  /\ \E kind \in {"rename", "delete", None} : menu' = [menu EXCEPT !.kind = kind]
  /\ UNCHANGED <<rest, flow, pending, shown, load, notice, picking, query, taps>>

\* RenameSheet: a name that is new, or nothing.
RenameSheet ==
  /\ menu.kind = "rename" /\ menu' = closed
  /\ \/ Tap /\ Begins([NoFlow EXCEPT !.kind = "rename", !.at = "renaming",
                                     !.id = menu.target.id])
     \/ UNCHANGED <<flow, taps>>
  /\ UNCHANGED <<rest, pending, shown, load, notice, picking, query>>

DeleteSheet ==
  /\ menu.kind = "delete" /\ menu' = closed
  /\ \/ Tap /\ Begins([NoFlow EXCEPT !.kind = "delete", !.at = "deleting",
                                     !.id = menu.target.id])
     \/ UNCHANGED <<flow, taps>>
  /\ UNCHANGED <<rest, pending, shown, load, notice, picking, query>>

\* What a notice tells of: a failure of one call.
Notices == {"bundleRefused", "copyFailed", "addFailed", "pickerFailed", "deleteFailed",
            "renameFailed"}

NoticeCard ==
  /\ notice \in Notices /\ notice' = None
  /\ UNCHANGED <<rest, flow, pending, shown, load, picking, menu, query, taps>>

\* The player opened on a row saves times it was tapped for that row's lyrics.
SaveTiming ==
  /\ Tap
  /\ \E r \in sets :
       Begins([NoFlow EXCEPT !.kind = "times", !.at = "retiming", !.id = r.id,
                             !.bundle = Bundle(r.job, r.lyrics)])
  /\ UNCHANGED <<rest, pending, screen>>

User == \/ Enter \/ Search \/ Pick \/ Picked \/ confirmReplace \/ cancelReplace
        \/ OpenActions \/ ActionsSheet \/ RenameSheet \/ DeleteSheet \/ NoticeCard
        \/ SaveTiming

\* The process dies: the table and the folders are what is left.
Die ==
  /\ Fault
  /\ flow' = [f \in Flows |-> NoFlow] /\ sweep' = Off /\ pending' = NoBundle
  /\ shown' = {} /\ load' = "loading" /\ notice' = None /\ picking' = FALSE
  /\ menu' = [kind |-> None, target |-> NoRow] /\ query' = None
  /\ undeleted' = {}
  /\ UNCHANGED <<table, disk, taps, crossed>>

Next == (\E f \in Flows : FlowStep(f)) \/ Sweep \/ User \/ Die

Spec == Init /\ [][Next]_vars

-----------------------------------------------------------------------------
(* Properties.                                                             *)

\* Every song in the table has its folder on disk, and no two share one: no failed
\* add, replaced copy, deletion or sweep takes the files of a song that stayed, as
\* long as no import takes a folder name again while somebody is still to delete
\* that name (stemFolderSweep.ts, deleteLeftovers).
FilesKept ==
  ~crossed => /\ Folders(sets) \subseteq disk
              /\ \A r, q \in sets : r # q => r.folder # q.folder /\ r.job # q.job

\* Once nothing is under way and this start's sweep ran through, the only folders
\* without a song are those whose deletion failed: a process that died between the
\* copy of a bundle and its row, or between a row's end and its folder's, costs
\* nothing for ever.
FilesFreed ==
  (sweep.at = "swept" /\ \A f \in Flows : flow[f] = NoFlow)
     => disk \ Folders(sets) \subseteq undeleted

\* Times the user tapped only ever stand beside the lyrics they were tapped for
\* (stem-lyrics.ts:50).
TimesFit == \A r \in sets : r.retimed \in {None, r.lyrics}

\* A replaced song keeps the name its user gave it (notices.ts:144).
NamesKept ==
  \A r \in sets : \A q \in sets' :
     (r.job = q.job /\ r.renamed) => q.renamed
=============================================================================
