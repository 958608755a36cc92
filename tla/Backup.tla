------------------------------- MODULE Backup -------------------------------
(***************************************************************************)
(* Backup and restore: core-db's backup service (format, snapshot, parse,  *)
(* plan, apply) and core-state's restore store with its screen.            *)
(*                                                                         *)
(* A table is a function from the uuids it holds to rows.  One row shape   *)
(* serves every category: `ref` is the one link a category may have        *)
(* (REFERENCES), `items` the presets of a setlist in order.  Calls to the  *)
(* backup service queue in the transactor and are served one at a time,    *)
(* each with its answer; everything else of the app edits between them.    *)
(***************************************************************************)
EXTENDS Naturals, Sequences, FiniteSets

CONSTANTS Locals,       \* databases the app may start with
          Files,        \* files the picker may return
          Edited(_),    \* databases one edit elsewhere may leave a database as
          MaxRequests,  \* bound: plans asked for
          MaxEdits      \* bound: edits elsewhere

Categories == {"librarySongs", "songPresets", "setlists", "tunings",
               "practiceSessions", "countInSettings"}
DEFAULT_IMPORT_CATEGORIES ==
  {"songPresets", "setlists", "tunings", "countInSettings"}

\* REFERENCES, and where each leads.
Referring == {"songPresets", "practiceSessions"}
Target(c) == IF c = "songPresets" THEN "librarySongs" ELSE "setlists"

NoTable == [k \in {} |-> "none"]

\* A record, for which `body` stands for every column of its own.
Row(body, ref, items, active) ==
  [body |-> body, ref |-> ref, items |-> items, active |-> active]

VARIABLES db,        \* the database
          restore,   \* restoreStore's state
          request,   \* its ticket
          calls,     \* calls waiting in the transactor, oldest first
          screen,    \* the restore screen is mounted
          sheet,     \* the sheet open over the review
          picking,   \* the system's picker is open
          edits,     \* bound
          last       \* ghost: the last restore applied

vars == <<db, restore, request, calls, screen, sheet, picking, edits, last>>

-----------------------------------------------------------------------------
(* Export and parse.                                                       *)

withDependencies(categories) ==
  categories \cup (IF "setlists" \in categories THEN {"songPresets"} ELSE {})

\* A record names its links by uuid; a link to a row that is gone is none.
record(d, c, row) ==
  [row EXCEPT !.ref = IF c \in Referring /\ @ \notin DOMAIN d[Target(c)]
                      THEN "none" ELSE @]

\* loadRows: what one category of the file says.
loadRows(d, c) == [k \in DOMAIN d[c] |-> record(d, c, d[c][k])]

\* serializeBackup of a snapshot of the categories and what they need.
export(d, categories) ==
  LET listed == withDependencies(categories)
  IN [categories |-> listed, readable |-> TRUE,
      records |-> [c \in Categories |->
                     IF c \in listed THEN loadRows(d, c) ELSE NoTable]]

\* One setlist with its presets, not active on the device it came from.
exportSetlist(d, uuid) ==
  [categories |-> {"songPresets", "setlists"}, readable |-> TRUE,
   records |->
     [c \in Categories |->
        CASE c = "setlists" ->
               [k \in {uuid} |-> [record(d, c, d[c][uuid]) EXCEPT !.active = FALSE]]
          [] c = "songPresets" ->
               [k \in {d["setlists"][uuid].items[i] :
                         i \in 1 .. Len(d["setlists"][uuid].items)} |->
                    record(d, c, d[c][k])]
          [] OTHER -> NoTable]]

\* READERS: every field of every record is there and of its kind.
readCategories(file) == file.readable

\* checkSetlists: one is active at most, and its presets are in the file.
checkSetlists(records) ==
  /\ Cardinality({k \in DOMAIN records["setlists"] :
                    records["setlists"][k].active}) <= 1
  /\ \A k \in DOMAIN records["setlists"] :
       \A i \in 1 .. Len(records["setlists"][k].items) :
         records["setlists"][k].items[i] \in DOMAIN records["songPresets"]

\* checkReferences, for the targets the file lists.
checkReferences(file) ==
  \A c \in Referring : Target(c) \in file.categories =>
    \A k \in DOMAIN file.records[c] :
      file.records[c][k].ref \in DOMAIN file.records[Target(c)] \cup {"none"}

\* Mutant: a file is taken as it comes.
parsedLoosely(file) == readCategories(file)

\* parseBackup: the file must be whole by itself.
parsed(file) ==
  readCategories(file) /\ checkSetlists(file.records) /\ checkReferences(file)

-----------------------------------------------------------------------------
(* Plan.                                                                   *)

\* selectCategories rejects a selection the file or another category forbids.
selectable(file, mode, categories) ==
  /\ categories \subseteq file.categories
  /\ "setlists" \in categories => "songPresets" \in categories
  /\ mode = "replace" /\ "songPresets" \in categories =>
       "setlists" \in categories

\* Mutant: a link to a category that is not restored is kept as it came.
effectiveBlindly(c, row, categories, d) == row

\* A link into a category that is not restored survives if the row is here.
effective(c, row, categories, d) ==
  IF c \in Referring /\ Target(c) \notin categories
                     /\ row.ref \notin DOMAIN d[Target(c)]
  THEN [row EXCEPT !.ref = "none"] ELSE row

\* Merge compares rows without `active`.
canonical(row) == [row EXCEPT !.active = FALSE]

Key(c, k) == <<c, k>>

\* planReplace: every record is written and every row deleted.
planReplace(incoming, table) ==
  [counts |-> [new |-> Cardinality(DOMAIN incoming), unchanged |-> 0,
               updates |-> 0, conflicts |-> {},
               deletes |-> Cardinality(DOMAIN table)],
   unresolved |-> {}, keys |-> DOMAIN incoming]

\* mergeConflict: a row that differs takes the side chosen for it.
mergeConflict(chosen, k) == IF k \in DOMAIN chosen THEN chosen[k] ELSE "none"

\* planMerge: new records and conflicts given to the file are written.
planMerge(incoming, table, chosen) ==
  LET new == DOMAIN incoming \ DOMAIN table
      unchanged == {k \in DOMAIN incoming \ new :
                      canonical(incoming[k]) = canonical(table[k])}
      conflicts == DOMAIN incoming \ (new \cup unchanged)
      theirs == {k \in conflicts : mergeConflict(chosen, k) = "theirs"}
  IN [counts |-> [new |-> Cardinality(new),
                  unchanged |-> Cardinality(unchanged),
                  updates |-> Cardinality(theirs),
                  conflicts |-> conflicts, deletes |-> 0],
      unresolved |-> {k \in conflicts : mergeConflict(chosen, k) = "none"},
      keys |-> new \cup theirs]

\* computePlan: what each category brings, and which records are written.
computePlan(file, d, mode, categories, resolutions) ==
  LET chosen(c) == [k \in {key[2] : key \in {x \in DOMAIN resolutions : x[1] = c}}
                      |-> resolutions[Key(c, k)]]
      incoming == [c \in categories |->
                     [k \in DOMAIN file.records[c] |->
                        effective(c, file.records[c][k], categories, d)]]
      each == [c \in categories |->
                 IF mode = "replace" THEN planReplace(incoming[c], d[c])
                 ELSE planMerge(incoming[c], d[c], chosen(c))]
  IN [mode |-> mode, categories |-> categories, file |-> file,
      resolutions |-> resolutions,
      counts |-> [c \in categories |-> each[c].counts],
      unresolved |-> UNION {{Key(c, k) : k \in each[c].unresolved} :
                              c \in categories},
      writes |-> [c \in categories |->
                    [k \in each[c].keys |-> incoming[c][k]]]]

planFingerprint(plan) == <<plan.mode, plan.categories, plan.counts>>

-----------------------------------------------------------------------------
(* Apply.                                                                  *)

lookup(known, ref) == IF ref \in known THEN ref ELSE "none"

\* Mutant: rows of categories that were left alone keep no link to a replaced
\* category.
relinkedNot(row, known) == [row EXCEPT !.ref = "none"]

\* relinkUntouched: deleting a category nulled the links to it; rows that were
\* not restored get back the ones whose target is there again.
relinked(row, known) == [row EXCEPT !.ref = lookup(known, row.ref)]

\* deleteCategory: a replaced category starts from nothing.
deleteCategory(d, plan, c) ==
  IF plan.mode = "replace" /\ c \in plan.categories THEN NoTable ELSE d[c]

writesOf(plan, c) == IF c \in plan.categories THEN plan.writes[c] ELSE NoTable

\* The rows there are once a category is written.
idMaps(d, plan, c) ==
  DOMAIN deleteCategory(d, plan, c) \cup DOMAIN writesOf(plan, c)

\* upsertSetlist: one that is updated keeps its own `active`, a new one is active
\* only in replace.
upsertSetlist(d, plan, k) ==
  LET before == deleteCategory(d, plan, "setlists")
  IN IF k \in DOMAIN before THEN before[k].active
     ELSE plan.mode = "replace" /\ writesOf(plan, "setlists")[k].active

\* UPSERTS: the row a record becomes.
upserted(d, plan, c, k) ==
  [writesOf(plan, c)[k] EXCEPT
     !.ref = IF c \in Referring THEN lookup(idMaps(d, plan, Target(c)), @) ELSE @,
     !.active = c = "setlists" /\ upsertSetlist(d, plan, k)]

relinkUntouched(d, plan, c, k) ==
  LET row == d[c][k]
  IN IF c \in Referring /\ plan.mode = "replace" /\ Target(c) \in plan.categories
     THEN relinked(row, idMaps(d, plan, Target(c))) ELSE row

\* deleteCategory, then UPSERTS category by category, targets first, then the
\* links of what was left alone.
applyWrites(d, plan) ==
  [c \in Categories |->
     [k \in idMaps(d, plan, c) |->
        IF k \in DOMAIN writesOf(plan, c) THEN upserted(d, plan, c, k)
                                          ELSE relinkUntouched(d, plan, c, k)]]

Active(d) == {k \in DOMAIN d["setlists"] : d["setlists"][k].active}

\* After a merge the file's active setlist becomes ours if none is.
adoptActiveSetlist(d, plan) ==
  LET incoming == Active(plan.file.records)
  IN IF /\ "setlists" \in plan.categories /\ plan.mode = "merge"
        /\ incoming # {} /\ Active(d) = {}
        /\ incoming \subseteq DOMAIN d["setlists"]
     THEN [d EXCEPT !["setlists"] =
             [k \in DOMAIN @ |-> [@[k] EXCEPT !.active = k \in incoming]]]
     ELSE d

\* writeItems throws for a preset it does not find.
itemsFound(d, plan) ==
  "setlists" \in plan.categories =>
    \A k \in DOMAIN plan.writes["setlists"] :
      LET items == plan.writes["setlists"][k].items
      IN \A i \in 1 .. Len(items) :
           items[i] \in DOMAIN applyWrites(d, plan)["songPresets"]

written(d, plan) == adoptActiveSetlist(applyWrites(d, plan), plan)

-----------------------------------------------------------------------------
(* The selection of the review (categories.ts).                            *)

linked(mode, category, adding) ==
  IF \/ category = "setlists" /\ (adding \/ mode = "replace") THEN "songPresets"
  ELSE IF category = "songPresets" /\ (~adding \/ mode = "replace")
  THEN "setlists" ELSE category

toggledCategories(current, category, mode, inFile) ==
  LET adding == category \notin current
      changed == {category, linked(mode, category, adding)}
  IN (IF adding THEN current \cup changed ELSE current \ changed) \cap inFile

categoriesForMode(current, mode, inFile) ==
  IF mode = "replace" /\ "songPresets" \in current
  THEN IF "setlists" \in inFile THEN current \cup {"setlists"}
                                ELSE current \ {"songPresets"}
  ELSE current

-----------------------------------------------------------------------------
(* The restore store.                                                      *)

EMPTY == [phase |-> "empty"]
InReview == restore.phase = "review"
Plain(phase) == [phase |-> phase]
NoResolutions == [k \in {} |-> "mine"]

Init ==
  /\ db \in Locals
  /\ restore = EMPTY
  /\ request = 0
  /\ calls = <<>>
  /\ screen = FALSE /\ sheet = "none" /\ picking = FALSE
  /\ edits = 0
  /\ last = [kind |-> "none"]

\* replan: a new ticket, and the call that will answer it.
replan(file, mode, categories, resolutions, stale, shown) ==
  /\ request' = request + 1
  /\ calls' = Append(shown.calls,
       [kind |-> "plan", ticket |-> request + 1, file |-> file, mode |-> mode,
        categories |-> categories, resolutions |-> resolutions,
        stale |-> stale])
  /\ restore' = IF shown.restore.phase = "review"
                THEN [shown.restore EXCEPT !.planning = TRUE]
                ELSE shown.restore

Now == [calls |-> calls, restore |-> restore]

\* The settings row picks and then opens the screen; the screen itself offers the
\* picker when it has nothing to show and after a failure.
RestoreRow == ~screen
PickOffered == screen /\ restore.phase \in {"empty", "failed"}

pick ==
  /\ ~picking /\ (RestoreRow \/ PickOffered)
  /\ request < MaxRequests
  /\ request' = request + 1
  /\ restore' = Plain("reading")
  /\ picking' = TRUE
  /\ UNCHANGED <<db, calls, screen, sheet, edits, last>>

\* The picker returns a file, nothing, or fails; the file's default categories
\* are planned for a merge.
picked ==
  /\ picking
  /\ picking' = FALSE
  /\ \/ \E file \in Files :
          replan(file, "merge", DEFAULT_IMPORT_CATEGORIES \cap file.categories,
                 NoResolutions, FALSE, Now)
     \/ /\ restore' \in {EMPTY, Plain("failed")}
        /\ UNCHANGED <<request, calls>>
  /\ UNCHANGED <<db, screen, sheet, edits, last>>

\* The row's pick came to a review or an outcome: the screen opens on it.
RestoreScreen ==
  /\ ~screen /\ ~picking
  /\ restore.phase # "empty"
  /\ screen' = TRUE
  /\ UNCHANGED <<db, restore, request, calls, sheet, picking, edits, last>>

\* Leaving the screen resets the store, whatever is in flight.
reset ==
  /\ screen /\ ~picking
  /\ screen' = FALSE /\ sheet' = "none"
  /\ request' = request + 1
  /\ restore' = EMPTY
  /\ UNCHANGED <<db, calls, picking, edits, last>>

\* The review is shown; an edit of it waits for the plan of the one before.
Review == screen /\ restore.phase \in {"review", "applying"}
Editing == Review /\ InReview /\ ~restore.planning /\ request < MaxRequests
ReviewFrame == UNCHANGED <<db, screen, sheet, picking, edits, last>>

SetMode(mode) ==
  /\ Editing /\ sheet = "none"
  /\ LET plan == restore.plan
     IN replan(plan.file, mode,
               categoriesForMode(plan.categories, mode, plan.file.categories),
               restore.resolutions, FALSE, Now)
  /\ ReviewFrame

\* A row per category of the file.
CategoryRow(category) == category \in restore.plan.file.categories

ToggleCategory(category) ==
  /\ Editing /\ sheet = "none"
  /\ CategoryRow(category)
  /\ LET plan == restore.plan
     IN replan(plan.file, plan.mode,
               toggledCategories(plan.categories, category, plan.mode,
                                 plan.file.categories),
               restore.resolutions, FALSE, Now)
  /\ ReviewFrame

planConflicts(plan) ==
  UNION {{Key(c, k) : k \in plan.counts[c].conflicts} : c \in plan.categories}

\* The sheet has a row per conflict, each with both sides to choose from.
ConflictSheet == {"mine", "theirs"}

Resolve ==
  /\ Editing /\ sheet = "conflicts"
  /\ LET plan == restore.plan
         chosen == restore.resolutions
     IN \E conflict \in planConflicts(plan), side \in ConflictSheet :
          replan(plan.file, plan.mode, plan.categories,
                 [k \in DOMAIN chosen \cup {conflict} |->
                    IF k = conflict THEN side ELSE chosen[k]],
                 FALSE, Now)
  /\ ReviewFrame

canApply == InReview /\ ~restore.planning /\ restore.plan.unresolved = {}

\* What the review's button does.
commitStep ==
  IF ~InReview \/ restore.planning THEN "wait"
  ELSE IF restore.plan.unresolved # {} THEN "review"
  ELSE IF restore.plan.mode = "replace" THEN "confirmReplace" ELSE "apply"

SheetFrame == UNCHANGED <<db, restore, request, calls, screen, picking, edits, last>>

\* Shown over the review while there is a conflict at all.
ConflictBanner == Review /\ planConflicts(restore.plan) # {}

OpenSheet ==
  /\ Review /\ sheet = "none"
  /\ \/ /\ ConflictBanner \/ commitStep = "review"
        /\ sheet' = "conflicts"
     \/ /\ commitStep = "confirmReplace"
        /\ sheet' = "replace"
  /\ SheetFrame

DismissSheet ==
  /\ sheet # "none"
  /\ sheet' = "none"
  /\ SheetFrame

\* apply: by the button for a merge, and for a replace once the word is typed into
\* its sheet; what the sheet confirms is the review as it is by then.
apply ==
  /\ Review /\ canApply
  /\ sheet = IF restore.plan.mode = "replace" THEN "replace" ELSE "none"
  /\ sheet' = "none"
  /\ restore' = [restore EXCEPT !.phase = "applying"]
  /\ calls' = Append(calls, [kind |-> "apply", plan |-> restore.plan,
                             review |-> restore])
  /\ UNCHANGED <<db, request, screen, picking, edits, last>>

\* The review's sheets are part of it.
SheetKept(shown) ==
  sheet' = IF shown.phase \in {"review", "applying"} THEN sheet ELSE "none"

\* plan is answered: an answer to an older ticket is dropped.
planServed ==
  /\ calls # <<>> /\ Head(calls).kind = "plan"
  /\ calls' = Tail(calls)
  /\ LET call == Head(calls)
     IN restore' =
          IF call.ticket # request THEN restore
          ELSE IF parsed(call.file)
                  /\ selectable(call.file, call.mode, call.categories)
          THEN [phase |-> "review", planning |-> FALSE, stale |-> call.stale,
                resolutions |-> call.resolutions,
                plan |-> computePlan(call.file, db, call.mode, call.categories,
                                     call.resolutions)]
          ELSE Plain("failed")
  /\ SheetKept(restore')
  /\ UNCHANGED <<db, request, screen, picking, edits, last>>

\* Mutant: the plan is written without being counted again.
freshAsPlanned(plan) == TRUE

\* The plan still counts what it counted when it was shown.
fresh(plan) ==
  planFingerprint(computePlan(plan.file, db, plan.mode, plan.categories,
                              plan.resolutions)) = planFingerprint(plan)

\* applyPlan in one transaction: planned again, and written only if the library
\* still is what the review counted; a stale plan is counted anew for review.
applyPlan ==
  /\ calls # <<>> /\ Head(calls).kind = "apply"
  /\ LET call == Head(calls)
         plan == call.plan
         now == computePlan(plan.file, db, plan.mode, plan.categories,
                            plan.resolutions)
     IN \/ /\ ~fresh(plan)
           /\ replan(plan.file, plan.mode, plan.categories,
                     call.review.resolutions, TRUE,
                     [calls |-> Tail(calls), restore |-> restore])
           /\ UNCHANGED <<db, last>>
        \/ /\ fresh(plan) /\ itemsFound(db, now)
           /\ db' = written(db, now)
           /\ last' = [kind |-> "applied", before |-> db, plan |-> plan]
           /\ restore' = Plain("done")
           /\ calls' = Tail(calls)
           /\ UNCHANGED request
        \/ /\ fresh(plan)
           /\ restore' = Plain("failed")
           /\ calls' = Tail(calls)
           /\ last' = IF itemsFound(db, now) THEN last ELSE [kind |-> "broken"]
           /\ UNCHANGED <<db, request>>
  /\ SheetKept(restore')
  /\ UNCHANGED <<screen, picking, edits>>

\* Something else of the app writes between two calls.
Edit ==
  /\ edits < MaxEdits
  /\ edits' = edits + 1
  /\ db' \in Edited(db)
  /\ last' = [kind |-> "none"]
  /\ UNCHANGED <<restore, request, calls, screen, sheet, picking>>

Next ==
  \/ pick \/ picked \/ RestoreScreen \/ reset
  \/ \E mode \in {"merge", "replace"} : SetMode(mode)
  \/ \E c \in Categories : ToggleCategory(c)
  \/ Resolve \/ OpenSheet \/ DismissSheet \/ apply
  \/ planServed \/ applyPlan \/ Edit

Spec == Init /\ [][Next]_vars
-----------------------------------------------------------------------------
(* Properties                                                              *)

\* Every link, and every item of a setlist, leads to a row; one setlist at
\* most is active; and no restore ever stops at a preset it does not find.
DatabaseWhole ==
  /\ \A c \in Referring : \A k \in DOMAIN db[c] :
       db[c][k].ref \in DOMAIN db[Target(c)] \cup {"none"}
  /\ \A k \in DOMAIN db["setlists"] :
       \A i \in 1 .. Len(db["setlists"][k].items) :
         db["setlists"][k].items[i] \in DOMAIN db["songPresets"]
  /\ Cardinality(Active(db)) <= 1
  /\ last.kind # "broken"

\* What a row says apart from its link and whether it is active.
Says(row) == <<row.body, row.items>>

\* A restore did what its review promised, whatever was edited while it was
\* open: a replaced category holds the file's records and no other; a merged one
\* lost nothing of ours, took every new record and every conflict given to the
\* file, and changed nothing else; a category that was not chosen changed in
\* nothing but links, and lost no link whose target is still there.
AppliedAsReviewed ==
  last.kind = "applied" =>
    LET plan == last.plan
        mine == last.before
        theirs == plan.file.records
        given(c) == {k \in DOMAIN theirs[c] \cap DOMAIN mine[c] :
                       /\ Key(c, k) \in DOMAIN plan.resolutions
                       /\ plan.resolutions[Key(c, k)] = "theirs"}
        here(c) == DOMAIN db[c]
    IN \A c \in Categories :
         IF c \notin plan.categories
         THEN /\ here(c) = DOMAIN mine[c]
              /\ \A k \in here(c) :
                   /\ Says(db[c][k]) = Says(mine[c][k])
                   /\ mine[c][k].ref = "none" => db[c][k].ref = "none"
                   /\ c \in Referring /\ mine[c][k].ref \in here(Target(c)) =>
                        db[c][k].ref = mine[c][k].ref
         ELSE IF plan.mode = "replace"
         THEN /\ here(c) = DOMAIN theirs[c]
              /\ \A k \in here(c) :
                   /\ Says(db[c][k]) = Says(theirs[c][k])
                   /\ db[c][k].active = theirs[c][k].active
                   /\ c \in Referring =>
                        db[c][k].ref = lookup(here(Target(c)), theirs[c][k].ref)
         ELSE /\ here(c) = DOMAIN mine[c] \cup DOMAIN theirs[c]
              /\ \A k \in here(c) :
                   Says(db[c][k]) =
                     IF k \in given(c) \/ k \notin DOMAIN mine[c]
                     THEN Says(theirs[c][k]) ELSE Says(mine[c][k])
              /\ Active(mine) # {} => Active(db) = Active(mine)

\* Nothing is written that the review had not counted: the numbers of new,
\* changed and deleted records on the button are those of what happened.
CountsAreKept ==
  last.kind = "applied" =>
    \A c \in last.plan.categories :
      LET count == last.plan.counts[c]
          before == DOMAIN last.before[c]
      IN IF last.plan.mode = "replace"
         THEN Cardinality(before) = count.deletes
         ELSE /\ Cardinality(DOMAIN db[c] \ before) = count.new
              /\ \A k \in before :
                   Says(db[c][k]) # Says(last.before[c][k]) =>
                     k \in count.conflicts

RestoreKeepsItsWord == AppliedAsReviewed /\ CountsAreKept

Restored(d, file, mode, categories) ==
  LET all == [k \in Categories \X UNION {DOMAIN file.records[c] : c \in Categories}
                |-> "theirs"]
  IN written(d, computePlan(file, d, mode, categories, all))

EmptyDatabase == [c \in Categories |-> NoTable]

\* A whole backup brings the library back as it was, into an empty app by either
\* mode; and a restore that was just applied has nothing left to bring.
BackupIsComplete ==
  /\ LET file == export(db, Categories)
     IN /\ parsed(file)
        /\ \A mode \in {"merge", "replace"} :
             Restored(EmptyDatabase, file, mode, Categories) = db
        /\ \A k \in DOMAIN db["setlists"] :
             LET one == exportSetlist(db, k)
             IN parsed(one)
                  /\ Restored(db, one, "merge", one.categories) = db
  /\ last.kind = "applied" =>
       LET again == computePlan(last.plan.file, db, "merge",
                                last.plan.categories, NoResolutions)
       IN \A c \in last.plan.categories :
            /\ again.counts[c].new = 0
            /\ \A k \in again.counts[c].conflicts :
                 /\ Key(c, k) \in DOMAIN last.plan.resolutions
                 /\ last.plan.resolutions[Key(c, k)] = "mine"
=============================================================================
