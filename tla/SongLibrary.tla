---------------------------- MODULE SongLibrary ----------------------------
(***************************************************************************)
(* The metronome's songs and setlists: the store that the screens share    *)
(* (core-state/src/library), the repositories behind it                    *)
(* (core-db/src/setlist-repository.ts, song-preset-repository.ts) and what *)
(* the setlists, setlist, all-songs and editor screens offer               *)
(* (tool-metronome/src/library, screen/UnsavedChanges.tsx, ...Sheet.tsx).  *)
(*                                                                         *)
(* Every repository call waits its turn in one queue, so queue is that     *)
(* line: a call is served whole, and what its caller does next joins the   *)
(* end.  A command is therefore a chain: the write, the reads of a         *)
(* refresh, the landing of the snapshot, and then whatever the screen was  *)
(* waiting for.  Loading a song is applied at once and only its mark in    *)
(* the database is queued, one task at a time, in order.                   *)
(*                                                                         *)
(* A song's settings are its tempo and whether its ramp is on; names,      *)
(* notes and the other settings follow the same path.  Screens keep no     *)
(* state of their own but the open sheet and the editor's draft, so the    *)
(* player may reach any of them between two taps.                          *)
(***************************************************************************)
EXTENDS Integers, FiniteSets, SequencesExt

CONSTANTS
    FirstSongs,   \* songs stored at the start, as settings by id
    FirstSets,    \* setlists stored at the start
    FirstItems,   \* setlist items stored at the start
    Tempos,       \* the tempos the player picks from
    MaxSong,      \* bound: the highest song id
    MaxItem,      \* bound: the highest item id
    MaxSet,       \* bound: the highest setlist id
    MaxTaps,      \* bound: commands and loads the player gives
    MaxFaults     \* bound: repository calls that fail for no reason of their own

None == 0         \* no song, item or setlist

VARIABLES
    db,           \* the tables: [songs, sets, active, items]
    mem,          \* the snapshot the screens show
    results,      \* what the search field found, or no search
    live,         \* the metronome's own settings
    loaded,       \* the song the metronome plays: [song, item, set]
    discarded,    \* the edits last let go of
    played,       \* items of the active set already played
    queue,        \* repository calls that wait, each with what follows it
    order,        \* marks of loaded songs that wait, one task at a time
    sheet,        \* the open sheet
    editor,       \* the song editor: [song, draft, dirty, asking, blocked]
    taps, faults,
    turns         \* ghost: [begun, shown], the refreshes that read the lists, by
                  \* number, and which of them the snapshot in memory is of

vars == <<db, mem, results, live, loaded, discarded, played, queue, order,
          sheet, editor, taps, faults, turns>>

Settings == [bpm: Tempos, ramp: BOOLEAN]
NoSong    == [song |-> None, item |-> None, set |-> None]
NoDiscard == [loaded |-> NoSong, settings |-> [bpm |-> 0, ramp |-> FALSE]]
NoSheet   == [kind |-> "none", song |-> None, item |-> None, set |-> None, error |-> FALSE]
NoEditor  == [song |-> None, draft |-> [bpm |-> 0, ramp |-> FALSE],
              dirty |-> FALSE, asking |-> "none", blocked |-> FALSE]
NoSearch  == [on |-> FALSE, songs |-> {}, sets |-> {}]

-----------------------------------------------------------------------------
(* The tables. *)

\* A setlist's items as they are listed: by position, then by id.
orderedItems(d, s) ==
    SetToSortSeq({i \in DOMAIN d.items : d.items[i].set = s},
                 LAMBDA i, j : \/ d.items[i].pos < d.items[j].pos
                               \/ d.items[i].pos = d.items[j].pos /\ i < j)

\* Items are numbered from 0 in the order given, and all join setlist s.
renumber(d, s, seq) ==
    [d EXCEPT !.items = [i \in DOMAIN d.items |->
        IF \E k \in DOMAIN seq : seq[k] = i
        THEN [d.items[i] EXCEPT !.set = s,
                                !.pos = (CHOOSE k \in DOMAIN seq : seq[k] = i) - 1]
        ELSE d.items[i]]]

\* An item is put at a place among the others of a setlist; past the end is last.
placeItem(d, i, s, place) ==
    LET others == SelectSeq(orderedItems(d, s), LAMBDA j : j # i)
        target == IF place > Len(others) THEN Len(others) ELSE place
    IN  renumber(d, s, InsertAt(others, target + 1, i))

\* A new item is stored at position 0 and then placed at the end.
addItem(d, s, song) ==
    LET new == Cardinality(DOMAIN d.items) + d.gone + 1
        row == [set |-> s, song |-> song, pos |-> 0]
        with == [d EXCEPT !.items = (new :> row) @@ @]
    IN  placeItem(with, new, s, MaxItem)

\* An item moves within its setlist or to another, whose source closes up.
moveItem(d, i, s, place) ==
    LET source == d.items[i].set
        rest   == SelectSeq(orderedItems(d, source), LAMBDA j : j # i)
        left   == IF source = s THEN d ELSE renumber(d, source, rest)
    IN  placeItem(left, i, s, place)

Without(f, gone) == [x \in DOMAIN f \ gone |-> f[x]]
ItemsOf(d, Test(_)) == {i \in DOMAIN d.items : Test(d.items[i])}
WithoutItems(d, gone) ==
    [d EXCEPT !.items = Without(@, gone), !.gone = @ + Cardinality(gone)]

\* Every setlist is taken off the stage and the named one is put on it.
setActive(d, s) == [d EXCEPT !.active = IF s = None THEN {} ELSE {s}]

\* A setlist goes with its items; the schema cascades.
deleteSetlist(d, s) ==
    [WithoutItems(d, ItemsOf(d, LAMBDA r : r.set = s))
        EXCEPT !.sets = @ \ {s}, !.active = @ \ {s}]

removeItem(d, i) == WithoutItems(d, {i} \cap DOMAIN d.items)

\* A song goes with every item that lists it.
deletePreset(d, song) ==
    [WithoutItems(d, ItemsOf(d, LAMBDA r : r.song = song))
        EXCEPT !.songs = Without(@, {song})]

NewSongId(d) == d.lastSong + 1
insertPreset(d, settings) ==
    [d EXCEPT !.songs = (NewSongId(d) :> settings) @@ @, !.lastSong = @ + 1]
updatePreset(d, song, settings) == [d EXCEPT !.songs[song] = settings]
insertSetlist(d) == [d EXCEPT !.sets = @ \cup {d.lastSet + 1}, !.lastSet = @ + 1]

\* The copy lists the same songs in the same order.
duplicateSetlist(d, s) ==
    LET songs == [k \in DOMAIN orderedItems(d, s) |-> d.items[orderedItems(d, s)[k]].song]
    IN  FoldLeft(LAMBDA acc, song : addItem(acc, acc.lastSet, song), insertSetlist(d), songs)

\* A call on a row that is no longer there throws, where the code asks for one.
Refused(d, call) ==
    \/ call.do \in {"move", "moveTo"} /\ call.item \notin DOMAIN d.items
    \/ call.do \in {"update", "duplicate", "add"} /\ call.song \notin DOMAIN d.songs
    \/ call.do \in {"add", "moveTo", "duplicateSet"} /\ call.set \notin d.sets
    \/ call.do = "selectActive" /\ call.set \notin d.sets \cup {None}

\* What each command of the two repositories does to the tables.
setlistCommands(d, call) ==
    CASE call.do = "createSet"    -> insertSetlist(d)
      [] call.do = "renameSet"    -> d
      [] call.do = "deleteSet"    -> deleteSetlist(d, call.set)
      [] call.do = "duplicateSet" -> duplicateSetlist(d, call.set)
      [] call.do = "selectActive" -> setActive(d, call.set)

itemCommands(d, call) ==
    CASE call.do = "add"        -> addItem(d, call.set, call.song)
      [] call.do = "moveTo"     -> moveItem(d, call.item, call.set, MaxItem)
      [] call.do = "move"       -> moveItem(d, call.item, d.items[call.item].set, call.place)
      [] call.do = "removeItem" -> removeItem(d, call.item)

createSongPresetRepository(d, call) ==
    CASE call.do = "create"    -> insertPreset(d, call.settings)
      [] call.do = "update"    -> updatePreset(d, call.song, call.settings)
      [] call.do = "duplicate" -> insertPreset(d, d.songs[call.song])
      [] call.do = "delete"    -> deletePreset(d, call.song)

SetCalls  == {"createSet", "renameSet", "deleteSet", "duplicateSet", "selectActive"}
ItemCalls == {"add", "moveTo", "move", "removeItem"}
SongCalls == {"create", "update", "duplicate", "delete"}

Applied(d, call) ==
    CASE call.do \in SetCalls  -> setlistCommands(d, call)
      [] call.do \in ItemCalls -> itemCommands(d, call)
      [] call.do \in SongCalls -> createSongPresetRepository(d, call)

-----------------------------------------------------------------------------
(* The snapshot and what the screens read from it. *)

\* The items of a setlist, those whose song the snapshot does not hold left out.
entriesOf(items, songs) == SelectSeq(items, LAMBDA e : e.song \in songs)

ItemRows(d, s) ==
    [k \in DOMAIN orderedItems(d, s) |->
        [item |-> orderedItems(d, s)[k], song |-> d.items[orderedItems(d, s)[k]].song]]

Entries(m, s) == IF s \in DOMAIN m.entries THEN m.entries[s] ELSE <<>>
activeSetlistOf(m) == IF m.active = {} THEN None ELSE CHOOSE s \in m.active : TRUE
PlaceOf(seq, item) ==
    IF \E k \in DOMAIN seq : seq[k].item = item
    THEN CHOOSE k \in DOMAIN seq : seq[k].item = item ELSE 0

\* The entry before or after the one loaded; with none loaded, next is the first.
adjacentEntry(seq, item, step) ==
    LET at == PlaceOf(seq, item)
        to == IF at = 0 THEN (IF step = 1 THEN 1 ELSE 0) ELSE at + step
    IN  IF to \in DOMAIN seq THEN seq[to] ELSE [item |-> None, song |-> None]

\* The set on stage, unless the song that plays comes from elsewhere.
activeSetView(m, l) ==
    LET s == activeSetlistOf(m)
    IN  IF s = None \/ (l # NoSong /\ l.set # s)
        THEN [set |-> None, count |-> 0, position |-> 0]
        ELSE [set |-> s, count |-> Len(Entries(m, s)),
              position |-> PlaceOf(Entries(m, s), l.item)]

\* Songs that no setlist holds, as the all-songs screen lists them.
Standalone(m) ==
    DOMAIN m.songs \ UNION {{m.entries[s][k].song : k \in DOMAIN m.entries[s]} :
                              s \in DOMAIN m.entries}
SnapshotOf(d) ==
    [ready |-> TRUE, failed |-> FALSE, sets |-> d.sets, active |-> d.active,
     entries |-> [s \in d.sets |-> ItemRows(d, s)], songs |-> d.songs]

-----------------------------------------------------------------------------
(* Settings, live and stored. *)

\* Loading sets everything; a running ramp owns the tempo from then on.
applyPreset(settings) == settings

\* An edit, unless it is only the tempo a running ramp has moved.
isLoadedSongUnsaved(song, now) ==
    \/ song.ramp # now.ramp
    \/ ~now.ramp /\ song.bpm # now.bpm

loadedPresetOf(m, l) == l.song # None /\ l.song \in DOMAIN m.songs
useLoadedSongUnsaved ==
    loadedPresetOf(mem, loaded) /\ isLoadedSongUnsaved(mem.songs[loaded.song], live)

\* What the store keeps for Undo when the loaded song is let go of now.
discardedNow ==
    IF useLoadedSongUnsaved THEN [loaded |-> loaded, settings |-> live] ELSE NoDiscard
\* Mutant: letting go of a song without a note.
noteDiscardNot(kept) == kept
noteDiscard(kept) == IF discardedNow # NoDiscard THEN discardedNow ELSE kept

-----------------------------------------------------------------------------
(* The queue: refreshes, searches and the tasks that mark the stage. *)

\* A refresh first reads both lists; items are read per setlist after that.
Refresh(then) == [do |-> "lists", then |-> then]
ReadItems(head, left, turn, then) ==
    [do |-> "items", head |-> head, left |-> left, turn |-> turn, then |-> then]
Search(then) == [do |-> "search", then |-> then]

\* A mark that finds no set on stage in memory to leave has nothing to do.
\* Mutant: a leave that trusts its song to be off the stage.
IdleTooOften(task, m) == task.do = "leave"
Idle(task, m) == task.do = "leave" /\ m.active = {}
Waiting(tasks, m) ==
    LET busy == {k \in DOMAIN tasks : ~Idle(tasks[k], m)}
    IN  IF busy = {} THEN <<>>
        ELSE SubSeq(tasks, CHOOSE k \in busy : \A j \in busy : k <= j, Len(tasks))

\* The first call of a task: the active set changes only if memory says it must.
switchActiveSetlist(task, m) ==
    IF task.do = "leave" \/ m.active # {task.set}
    THEN [do |-> "selectActive", set |-> task.set, then |-> "mark"]
    ELSE Refresh("ordered")

\* The items played, when a song of the set already on stage is pinned.
PlayedWith(item) ==
    IF \E k \in DOMAIN played : played[k] = item THEN played ELSE Append(played, item)
pin(task) ==
    CASE task.do = "leave"        -> played
      [] mem.active = {task.set}  -> PlayedWith(task.item)
      [] OTHER                    -> played

\* Tasks run one after another: a new one starts at once when none runs.
inOrder(task) ==
    IF order = <<>> /\ Idle(task, mem)
    THEN order' = order /\ UNCHANGED <<queue, played>>
    ELSE /\ order' = Append(order, task)
         /\ IF order = <<>>
            THEN queue' = Append(queue, switchActiveSetlist(task, mem)) /\ played' = pin(task)
            ELSE UNCHANGED <<queue, played>>

\* The task at the head ends, after m has become the snapshot.
EndTask(m, waiting) ==
    LET next == Waiting(Tail(order), m)
    IN  /\ order' = next
        /\ queue' = IF next = <<>> THEN waiting
                    ELSE Append(waiting, switchActiveSetlist(Head(next), m))
        /\ played' = IF next # <<>> /\ Head(next).do = "pin" /\ m.active = {Head(next).set}
                     THEN PlayedWith(Head(next).item) ELSE played

\* What the screen does once its command is through: its sheet closes, the
\* editor counts its draft as stored, or closes with its song.
ScreenDone(then) ==
    /\ sheet' = IF then = "sheet" THEN NoSheet ELSE sheet
    /\ editor' = CASE then = "saved" -> [editor EXCEPT !.dirty = FALSE]
                   [] then = "gone"  -> NoEditor
                   [] OTHER          -> editor

\* A failed command leaves its sheet open with an error.
guarded(then) ==
    /\ sheet' = IF then = "sheet" /\ sheet # NoSheet THEN [sheet EXCEPT !.error = TRUE]
                ELSE sheet
    /\ UNCHANGED editor

Continue(m, then, waiting) ==
    IF then = "ordered"
    THEN EndTask(m, waiting) /\ UNCHANGED <<sheet, editor>>
    ELSE /\ ScreenDone(then)
         /\ queue' = waiting
         /\ UNCHANGED <<order, played>>

\* Mutant: a write is followed by the search alone.
AfterWriteSearched(call) == Search(IF call.then = "mark" THEN "ordered" ELSE call.then)

\* A served write: the next call of its chain, then a refresh.
AfterWrite(call) ==
    IF "into" \in DOMAIN call /\ call.into # None
    THEN [do |-> "add", set |-> call.into, song |-> NewSongId(db), then |-> call.then]
    ELSE Refresh(IF call.then = "mark" THEN "ordered" ELSE call.then)

ServeWrite ==
    /\ queue # <<>> /\ Head(queue).do \in SetCalls \cup ItemCalls \cup SongCalls
    /\ ~Refused(db, Head(queue))
    /\ db' = Applied(db, Head(queue))
    /\ queue' = Append(Tail(queue), AfterWrite(Head(queue)))
    /\ played' = IF Head(queue).then = "mark"
                 THEN (IF Head(queue).set = None THEN <<>> ELSE <<Head(order).item>>)
                 ELSE played
    /\ UNCHANGED <<mem, results, live, loaded, discarded, order, sheet, editor, taps, faults, turns>>

\* A write throws: the transaction rolls back and no refresh follows.
FailWrite ==
    /\ queue # <<>> /\ Head(queue).do \in SetCalls \cup ItemCalls \cup SongCalls
    /\ Refused(db, Head(queue)) \/ faults < MaxFaults
    /\ faults' = faults + 1
    /\ IF Head(queue).then = "mark"
       THEN EndTask(mem, Tail(queue)) /\ UNCHANGED <<sheet, editor>>
       ELSE guarded(Head(queue).then) /\ queue' = Tail(queue) /\ UNCHANGED <<order, played>>
    /\ UNCHANGED <<db, mem, results, live, loaded, discarded, taps, turns>>

\* takeSnapshot: the lists, and then the items of one setlist after another.
takeSnapshot ==
    /\ queue # <<>> /\ Head(queue).do \in {"lists", "items"}
    /\ LET call == Head(queue)
           head == IF call.do = "lists"
                   THEN [sets |-> db.sets, active |-> db.active, songs |-> db.songs,
                         entries |-> [s \in {} |-> <<>>]]
                   ELSE [call.head EXCEPT !.entries =
                            (Head(call.left) :>
                                entriesOf(ItemRows(db, Head(call.left)), DOMAIN call.head.songs)) @@ @]
           left == IF call.do = "lists" THEN SetToSortSeq(db.sets, <) ELSE Tail(call.left)
           turn == IF call.do = "lists" THEN turns.begun + 1 ELSE call.turn
           begun == IF call.do = "lists" THEN turn ELSE turns.begun
           snapshot == [ready |-> TRUE, failed |-> FALSE, sets |-> head.sets,
                        active |-> head.active, entries |-> head.entries, songs |-> head.songs]
       IN  IF left # <<>>
           THEN /\ queue' = Append(Tail(queue), ReadItems(head, left, turn, call.then))
                /\ turns' = [turns EXCEPT !.begun = begun]
                /\ UNCHANGED <<mem, order, played, sheet, editor>>
           ELSE /\ mem' = snapshot
                /\ turns' = [begun |-> begun, shown |-> turn]
                /\ IF results.on
                   THEN queue' = Append(Tail(queue), Search(call.then))
                        /\ UNCHANGED <<order, played, sheet, editor>>
                   ELSE Continue(snapshot, call.then, Tail(queue))
    /\ UNCHANGED <<db, results, live, loaded, discarded, taps, faults>>

\* A read of the refresh fails: memory stays, and the caller goes on as before.
FailRefresh ==
    /\ queue # <<>> /\ Head(queue).do \in {"lists", "items", "search"}
    /\ faults < MaxFaults /\ faults' = faults + 1
    /\ mem' = IF Head(queue).do = "search" THEN mem ELSE [mem EXCEPT !.failed = TRUE]
    /\ Continue(mem, Head(queue).then, Tail(queue))
    /\ UNCHANGED <<db, results, live, loaded, discarded, taps, turns>>

\* Both searches answer; names are abstract, so every row matches.
search ==
    /\ queue # <<>> /\ Head(queue).do = "search"
    /\ results' = [on |-> TRUE, songs |-> DOMAIN db.songs, sets |-> db.sets]
    /\ Continue(mem, Head(queue).then, Tail(queue))
    /\ UNCHANGED <<db, mem, live, loaded, discarded, taps, faults, turns>>

-----------------------------------------------------------------------------
(* Loading, leaving, undoing. *)

Tap == taps < MaxTaps /\ taps' = taps + 1

\* The song plays at once; the mark on stage follows in its own time.
link(to, settings) ==
    /\ live' = applyPreset(settings)
    /\ loaded' = to
    /\ inOrder(IF to.set = None THEN [do |-> "leave", set |-> None, item |-> None]
               ELSE [do |-> "pin", set |-> to.set, item |-> to.item])

loadSong(to) ==
    /\ Tap
    /\ to.song \in DOMAIN mem.songs
    /\ discarded' = noteDiscard(discarded)
    /\ link(to, mem.songs[to.song])
    /\ UNCHANGED <<db, mem, results, sheet, editor, faults, turns>>

\* Rows that load: a setlist's entries, the standalone songs and the songs found.
EntryRows(m) == UNION {{[song |-> m.entries[s][k].song, item |-> m.entries[s][k].item, set |-> s] :
                            k \in DOMAIN m.entries[s]} : s \in DOMAIN m.entries}
StandaloneRows(m) == {[song |-> s, item |-> None, set |-> None] : s \in Standalone(m)}
SearchResultsList == {[song |-> s, item |-> None, set |-> None] : s \in results.songs}

\* The song list of the set on stage, its loaded song marked.
songListRows(s) ==
    [k \in DOMAIN Entries(mem, s) |->
        [song |-> Entries(mem, s)[k].song, item |-> Entries(mem, s)[k].item, set |-> s,
         now |-> Entries(mem, s)[k].item = loaded.item]]

\* What the sheet of a lone song offers, and the marked row of a set's song list.
LoadedSongSheet == {"clear"} \cup (IF useLoadedSongUnsaved THEN {"save", "revert"} ELSE {})
NowRowActions == IF useLoadedSongUnsaved THEN {"save", "revert"} ELSE {}
SaveRevert ==
    IF activeSetView(mem, loaded).set = None THEN LoadedSongSheet ELSE NowRowActions

PressEntry == \E row \in EntryRows(mem) : loadSong(row)
PressStandalone == ~results.on /\ \E row \in StandaloneRows(mem) : loadSong(row)
PressFound == results.on /\ \E row \in SearchResultsList : loadSong(row)

\* Play from 1 loads a set's first song.
usePlayFromOne ==
    \E s \in DOMAIN mem.entries :
        /\ mem.entries[s] # <<>>
        /\ loadSong([song |-> mem.entries[s][1].song, item |-> mem.entries[s][1].item, set |-> s])

\* A row of the song list, the loaded one too, loads its song.
SetlistSongsSheet ==
    LET s == activeSetView(mem, loaded).set
    IN  /\ s # None
        /\ \E k \in DOMAIN songListRows(s) :
              loadSong([song |-> songListRows(s)[k].song, item |-> songListRows(s)[k].item, set |-> s])

\* Previous and next on the stage bar, the notification and the remote.
stepSong(step) ==
    LET active == activeSetlistOf(mem)
        entry  == adjacentEntry(Entries(mem, active), loaded.item, step)
    IN  /\ active # None
        /\ entry.item # None
        /\ loadSong([song |-> entry.song, item |-> entry.item, set |-> active])

\* The song list's last row takes the set off the stage.
leaveSetlist ==
    /\ activeSetView(mem, loaded).set # None
    /\ Tap
    /\ discarded' = noteDiscard(discarded)
    /\ loaded' = NoSong
    /\ inOrder([do |-> "leave", set |-> None, item |-> None])
    /\ UNCHANGED <<db, mem, results, live, sheet, editor, faults, turns>>

\* The sheet of a song that is in no set lets go of it.
clearSong ==
    /\ loaded # NoSong /\ activeSetView(mem, loaded).set = None
    /\ "clear" \in LoadedSongSheet
    /\ Tap
    /\ discarded' = noteDiscard(discarded)
    /\ loaded' = NoSong
    /\ UNCHANGED <<db, mem, results, live, played, queue, order, sheet, editor, faults, turns>>

\* Save and Revert, offered while the loaded song has unsaved changes.
saveLoadedSong ==
    /\ "save" \in SaveRevert
    /\ Tap
    /\ queue' = Append(queue, [do |-> "update", song |-> loaded.song, settings |-> live,
                               then |-> "none"])
    /\ UNCHANGED <<db, mem, results, live, loaded, discarded, played, order, sheet, editor, faults, turns>>

revertLoadedSong ==
    /\ "revert" \in SaveRevert
    /\ Tap
    /\ live' = applyPreset(mem.songs[loaded.song])
    /\ UNCHANGED <<db, mem, results, loaded, discarded, played, queue, order, sheet, editor, faults, turns>>

\* The snackbar is shown while the song it names is in memory.
unsavedSnackbarView == discarded # NoDiscard /\ loadedPresetOf(mem, discarded.loaded)

\* Undo takes the note first, so that the edits it replaces are noted in turn.
undoDiscard ==
    /\ unsavedSnackbarView
    /\ Tap
    /\ discarded' = noteDiscard(NoDiscard)
    /\ link(discarded.loaded, discarded.settings)
    /\ UNCHANGED <<db, mem, results, sheet, editor, faults, turns>>

dismissDiscarded ==
    /\ unsavedSnackbarView
    /\ discarded' = NoDiscard
    /\ UNCHANGED <<db, mem, results, live, loaded, played, queue, order, sheet, editor, taps, faults, turns>>

\* The player turns the metronome's own knobs, on its own screen; a tempo ends a
\* ramp.  Before a song is loaded there is nothing to be unsaved.
EditLive ==
    /\ loaded # NoSong /\ sheet = NoSheet /\ editor = NoEditor
    /\ \E s \in Settings : s # live /\ (s.ramp => s.bpm = live.bpm) /\ live' = s
    /\ UNCHANGED <<db, mem, results, loaded, discarded, played, queue, order, sheet, editor, taps, faults, turns>>

\* A running ramp moves the tempo.
RampMoves ==
    /\ live.ramp
    /\ \E b \in Tempos : b # live.bpm /\ live' = [live EXCEPT !.bpm = b]
    /\ UNCHANGED <<db, mem, results, loaded, discarded, played, queue, order, sheet, editor, taps, faults, turns>>

-----------------------------------------------------------------------------
(* The sheets of the setlists, setlist and all-songs screens. *)

SheetTo(next) ==
    /\ sheet' = next
    /\ UNCHANGED <<db, mem, results, live, loaded, discarded, played, queue, order, editor, taps, faults, turns>>

Kind(kind) == [NoSheet EXCEPT !.kind = kind]

\* Long presses and buttons that open a sheet, with what it will act on.
useSetlistsMenu ==
    \/ SheetTo(Kind("createSet"))
    \/ ~results.on /\ \E s \in mem.sets : SheetTo([Kind("set") EXCEPT !.set = s])
useSongMenu ==
    \E row \in EntryRows(mem) \cup StandaloneRows(mem) :
        SheetTo([Kind("song") EXCEPT !.song = row.song, !.item = row.item, !.set = row.set])

\* Save current is offered on the set that holds the loaded song.
DetailChips(s) == {"add"} \cup
    (IF PlaceOf(Entries(mem, s), loaded.item) # 0 THEN {"saveCurrent"} ELSE {})
useDetailMenu ==
    \E s \in mem.sets : \E kind \in DetailChips(s) :
        SheetTo([Kind(kind) EXCEPT !.set = s,
                     !.song = IF kind = "add" THEN None ELSE loaded.song])
CloseSheet == sheet # NoSheet /\ SheetTo(NoSheet)
OpenSheet ==
    /\ sheet = NoSheet /\ editor = NoEditor /\ taps < MaxTaps
    /\ (useSetlistsMenu \/ useSongMenu \/ useDetailMenu)

Command(call) ==
    /\ Tap
    /\ queue' = Append(queue, call)
    /\ sheet' = [sheet EXCEPT !.error = FALSE]
    /\ UNCHANGED <<db, mem, results, live, loaded, discarded, played, order, editor, faults, turns>>

\* Both ask first; the answer is the tap.
SetlistDelete == Command([do |-> "deleteSet", set |-> sheet.set, then |-> "sheet"])
SongDelete == Command([do |-> "delete", song |-> sheet.song, then |-> "sheet"])

\* A new setlist's name, and then a new name for it, from the same field.
SetlistNaming ==
    IF sheet.kind = "createSet" THEN [do |-> "createSet", then |-> "sheet"]
    ELSE [do |-> "renameSet", then |-> "sheet"]

\* The commands of a setlist's own sheet.
useSetlistCommands ==
    \/ sheet.kind = "createSet" /\ db.lastSet < MaxSet /\ Command(SetlistNaming)
    \/ /\ sheet.kind = "set"
       /\ \/ Command(SetlistNaming)
          \/ SetlistDelete
          \/ /\ db.lastSet < MaxSet
             /\ Command([do |-> "duplicateSet", set |-> sheet.set, then |-> "sheet"])

\* The setlists a song may be moved or added to: all but the one it is seen in.
useDestinations == mem.sets \ {sheet.set}

\* What a song's sheet lists; only inside a set can it be removed from it.
songActions(inSet) ==
    {"edit", "duplicate", "move", "delete"} \cup (IF inSet THEN {"remove"} ELSE {})

\* The commands of a song's sheet; a confirmation and its question are one tap.
useSongCommands ==
    /\ sheet.kind = "song"
    /\ \/ /\ db.lastSong < MaxSong
          /\ Command([do |-> "duplicate", song |-> sheet.song, into |-> sheet.set, then |-> "sheet"])
       \/ /\ "remove" \in songActions(sheet.item # None /\ sheet.set # None)
          /\ Command([do |-> "removeItem", item |-> sheet.item, then |-> "sheet"])
       \/ SongDelete
       \/ \E s \in useDestinations :
            Command(IF sheet.item = None
                    THEN [do |-> "add", song |-> sheet.song, set |-> s, then |-> "sheet"]
                    ELSE [do |-> "moveTo", item |-> sheet.item, set |-> s, then |-> "sheet"])

\* Songs that can be added: a new one from the metronome, or one not in the set.
useAddActions ==
    /\ sheet.kind = "add"
    /\ LET inSet == {Entries(mem, sheet.set)[k].song : k \in DOMAIN Entries(mem, sheet.set)}
       IN  \/ /\ db.lastSong < MaxSong
              /\ Command([do |-> "create", settings |-> live, into |-> sheet.set, then |-> "sheet"])
           \/ \E song \in DOMAIN mem.songs \ inSet :
                Command([do |-> "add", song |-> song, set |-> sheet.set, then |-> "sheet"])

\* The song on stage takes everything the metronome is set to.
saveCurrentInto ==
    /\ sheet.kind = "saveCurrent"
    /\ Command([do |-> "update", song |-> sheet.song, settings |-> live, then |-> "sheet"])

\* A row is dragged to another place of its set.
reorder ==
    \E s \in DOMAIN mem.entries : \E from, to \in DOMAIN mem.entries[s] :
        /\ from # to
        /\ sheet = NoSheet
        /\ Command([do |-> "move", item |-> mem.entries[s][from].item, place |-> to - 1,
                    then |-> "none"])

\* The all-songs screen makes a song of what the metronome plays.
AllSongsScreen ==
    /\ sheet = NoSheet /\ db.lastSong < MaxSong
    /\ Command([do |-> "create", settings |-> live, into |-> None, then |-> "none"])

\* Every screen refreshes as it comes up; typing searches, clearing stops.
useLibraryRefresh ==
    /\ Tap
    /\ queue' = Append(queue, Refresh("none"))
    /\ UNCHANGED <<db, mem, results, live, loaded, discarded, played, order, sheet, editor, faults, turns>>
useQuery ==
    \/ /\ ~results.on /\ sheet = NoSheet
       /\ Tap
       /\ queue' = Append(queue, Search("none"))
       /\ UNCHANGED <<db, mem, results, live, loaded, discarded, played, order, sheet, editor, faults, turns>>
    \/ /\ results.on
       /\ results' = NoSearch
       /\ UNCHANGED <<db, mem, live, loaded, discarded, played, queue, order, sheet, editor, taps, faults, turns>>

-----------------------------------------------------------------------------
(* The song editor. *)

EditorTo(next) ==
    /\ editor' = next
    /\ UNCHANGED <<db, mem, results, live, loaded, discarded, played, queue, order, sheet, taps, faults, turns>>

\* The editor opens on a draft of the stored song.
draftFrom(settings) == settings
OpenEditor ==
    /\ editor = NoEditor /\ sheet = NoSheet /\ taps < MaxTaps
    /\ \E song \in DOMAIN mem.songs :
          EditorTo([NoEditor EXCEPT !.song = song, !.draft = draftFrom(mem.songs[song])])

EditorOn == editor.song # None /\ editor.song \in DOMAIN mem.songs

\* Every field of the draft changes it and marks it unsaved.
EditDraft ==
    /\ EditorOn /\ Tap
    /\ \E s \in Settings : s # editor.draft /\ editor' = [editor EXCEPT !.draft = s, !.dirty = TRUE]
    /\ UNCHANGED <<db, mem, results, live, loaded, discarded, played, queue, order, sheet, faults, turns>>

\* Save stores the draft as it was when the chip was pressed.
usePresetEditor ==
    /\ EditorOn /\ editor.dirty /\ Tap
    /\ queue' = Append(queue, [do |-> "update", song |-> editor.song, settings |-> editor.draft,
                               then |-> "saved"])
    /\ UNCHANGED <<db, mem, results, live, loaded, discarded, played, order, sheet, editor, faults, turns>>

\* The editor's Duplicate and Delete; Delete asks first and then closes.
useEditorCommands ==
    /\ EditorOn
    /\ \/ /\ editor.asking = "none" /\ EditorTo([editor EXCEPT !.asking = "delete"])
       \/ /\ editor.asking = "delete" /\ EditorTo([editor EXCEPT !.asking = "none"])
       \/ /\ editor.asking = "delete" /\ Tap
          /\ queue' = Append(queue, [do |-> "delete", song |-> editor.song, then |-> "gone"])
          /\ UNCHANGED <<db, mem, results, live, loaded, discarded, played, order, sheet, editor, faults, turns>>
       \/ /\ editor.asking = "none" /\ db.lastSong < MaxSong /\ Tap
          /\ queue' = Append(queue, [do |-> "duplicate", song |-> editor.song, into |-> None,
                                     then |-> "none"])
          /\ UNCHANGED <<db, mem, results, live, loaded, discarded, played, order, sheet, editor, faults, turns>>

\* Leaving an edited draft is held back until the player keeps or discards it.
useDiscardGuard ==
    /\ editor # NoEditor
    /\ \/ ~editor.dirty /\ EditorTo(NoEditor)
       \/ editor.dirty /\ ~editor.blocked /\ EditorTo([editor EXCEPT !.blocked = TRUE])
       \/ editor.blocked /\ EditorTo([editor EXCEPT !.blocked = FALSE])
       \/ editor.blocked /\ EditorTo(NoEditor)

-----------------------------------------------------------------------------
Init ==
    /\ \E onStage \in {{}} \cup {{s} : s \in FirstSets} :
          db = [songs |-> FirstSongs, sets |-> FirstSets, active |-> onStage, items |-> FirstItems,
                gone |-> 0, lastSong |-> Cardinality(DOMAIN FirstSongs),
                lastSet |-> Cardinality(FirstSets)]
    /\ mem = SnapshotOf(db)
    /\ results = NoSearch
    /\ live = [bpm |-> CHOOSE t \in Tempos : TRUE, ramp |-> FALSE]
    /\ loaded = NoSong /\ discarded = NoDiscard /\ played = <<>>
    /\ queue = <<>> /\ order = <<>>
    /\ sheet = NoSheet /\ editor = NoEditor
    /\ taps = 0 /\ faults = 0
    /\ turns = [begun |-> 0, shown |-> 0]

Serve == ServeWrite \/ FailWrite \/ takeSnapshot \/ FailRefresh \/ search
Play ==
    \/ PressEntry \/ PressStandalone \/ PressFound \/ usePlayFromOne \/ SetlistSongsSheet
    \/ \E step \in {-1, 1} : stepSong(step)
    \/ leaveSetlist \/ clearSong \/ saveLoadedSong \/ revertLoadedSong
    \/ undoDiscard \/ dismissDiscarded \/ EditLive \/ RampMoves
Manage ==
    \/ OpenSheet \/ CloseSheet \/ useSetlistCommands \/ useSongCommands \/ useAddActions
    \/ saveCurrentInto \/ reorder \/ AllSongsScreen \/ useLibraryRefresh \/ useQuery
Edit == OpenEditor \/ EditDraft \/ usePresetEditor \/ useEditorCommands \/ useDiscardGuard

Next == Serve \/ Play \/ Manage \/ Edit
Spec == Init /\ [][Next]_vars

-----------------------------------------------------------------------------
AtRest == queue = <<>> /\ order = <<>>

\* Unsaved edits are never lost in passing: when the song they were made to is
\* let go of, or another is put in its place, they are what Undo brings back
\* (store.ts noteDiscard, undoDiscard).
EditsKept ==
    (useLoadedSongUnsaved /\ <<loaded, live>>' # <<loaded, live>>)
        => \/ EditLive \/ RampMoves \/ revertLoadedSong
           \/ discarded' = [loaded |-> loaded, settings |-> live]

\* However loads, leaves and steps overlap, once all is answered the set marked
\* in the database is the one whose song plays, and a song of no set leaves none
\* (store.ts pin, leave, inOrder; a failed mark is the one exception).
StageFollowsSong ==
    AtRest /\ faults = 0 /\ loaded # NoSong
        => \/ loaded.set = None /\ db.active = {}
           \/ loaded.set # None /\ db.active = {loaded.set}
           \/ loaded.set # None /\ loaded.set \notin db.sets

\* The snapshot on the screens is of a refresh that had read the lists before
\* another did, and landed after it.
Overtaken == turns.shown < turns.begun

SetsDeleted == db.lastSet - Cardinality(db.sets)

\* Once all is answered and no call failed, the screens show what is stored, every
\* set in its stored order (snapshot.ts takeSnapshot, transaction.ts serial), but for
\* one case: a refresh carries no ticket and reads the items of one set after
\* another, so one that was begun before two setlists were deleted has more to read
\* than those the deletions asked for and may land last; it then shows the deleted
\* setlists until the next refresh (store.ts refresh, snapshot.ts).  No other order
\* of commands, and no refresh that reads the lists last, leaves the screens stale.
ShownIsStored ==
    AtRest /\ faults = 0 =>
        mem = SnapshotOf(db) \/ (Overtaken /\ SetsDeleted >= 2)
=============================================================================
