---------------------------- MODULE StorageSheet ----------------------------
(***************************************************************************)
(* The settings' Data section: what is read when Settings gets the focus,  *)
(* and the storage sheet that reports the library's files and removes the  *)
(* rows whose audio is gone.  Requests of the storage loader run one after *)
(* another and only the latest one's snapshot is published.                *)
(***************************************************************************)
EXTENDS Naturals
LOCAL INSTANCE SequencesExt

CONSTANTS Rows, MaxRequests, MaxFaults, MaxVisits   \* the last three: bounds

VARIABLES
  rows,      \* the library's rows, by whether their audio is left
  notice,    \* the song library's notice
  focused,   \* Settings has the focus
  sheet,     \* the sheet's kind
  queue,     \* requests not run to their end, at most one of them the latest
  work,      \* how far the first one is
  last,      \* the loader's last snapshot
  shown,     \* the snapshot the section draws
  stats,     \* the practice line's value, and its reads with their live flag
  sessions,  \* practice sessions stored
  faults, visits, \* what is left of the bounds
  failed     \* ghost: a removal left something, and nothing since found all well

storageVars == <<notice, sheet, queue, work, last, shown, failed>>
statsVars == <<stats, sessions>>
vars == <<rows, notice, focused, sheet, queue, work, last, shown,
          stats, sessions, faults, visits, failed>>

EMPTY_STORAGE == [report |-> FALSE, missing |-> {}, removalFailed |-> FALSE]
Idle == [step |-> "idle"]

-----------------------------------------------------------------------------
(* The loader.                                                             *)

\* A row is missing only when none of its audio is left.
findMissingRows == {r \in DOMAIN rows : rows[r] = "gone"}

\* Requests are numbered so that a later one, or a blur, outdates the others.
Outdated == [i \in DOMAIN queue |-> [queue[i] EXCEPT !.latest = FALSE]]
run(kinds) ==
  /\ Len(queue) + Len(kinds) <= MaxRequests
  /\ queue' = Outdated \o [i \in DOMAIN kinds |->
                             [kind |-> kinds[i], latest |-> i = Len(kinds)]]

cancel == queue' = Outdated

Fault == faults < MaxFaults /\ faults' = faults + 1

\* Either read may fail alone: no report, or no rows missing.
\* Mutant: the refresh forgets that a removal failed.
loadStorageAnew(after) ==
  \E report \in BOOLEAN, missing \in {{}, findMissingRows} :
    /\ IF report /\ missing = findMissingRows THEN UNCHANGED faults ELSE Fault
    /\ work' = [step |-> "publish",
                snapshot |-> [report |-> report, missing |-> missing,
                              removalFailed |-> after = "removal" /\ missing # {}]]
loadStorage(after) ==
  \E report \in BOOLEAN, missing \in {{}, findMissingRows} :
    /\ IF report /\ missing = findMissingRows THEN UNCHANGED faults ELSE Fault
    /\ work' = [step |-> "publish",
                snapshot |-> [report |-> report, missing |-> missing,
                  removalFailed |-> /\ missing # {}
                                    /\ after = "removal" \/ last.removalFailed]]

Load(after) ==
  /\ loadStorage(after)
  /\ failed' = (findMissingRows # {} /\ (after = "removal" \/ failed)
                  /\ work'.snapshot.missing # {})
  /\ UNCHANGED <<rows, notice>>

Taken(kind) == queue # <<>> /\ work = Idle /\ Head(queue).kind = kind

Refresh == Taken("refresh") /\ Load("visit")

\* The rows are found anew, then deleted one by one; one that cannot be
\* deleted leaves a notice, which is taken back at the end.
FindToRemove ==
  /\ Taken("remove")
  /\ \/ work' = [step |-> "delete", todo |-> findMissingRows] /\ UNCHANGED faults
     \/ Fault /\ work' = [step |-> "load"]
  /\ UNCHANGED <<rows, notice, failed>>

removeMissingRows ==
  /\ work.step = "delete" /\ work.todo # {}
  /\ \E r \in work.todo :
       /\ work' = [work EXCEPT !.todo = @ \ {r}]
       /\ \/ /\ rows' = [q \in DOMAIN rows \ {r} |-> rows[q]]
             /\ UNCHANGED <<notice, faults>>
          \/ Fault /\ notice' = "deleteFailed" /\ UNCHANGED rows
  /\ UNCHANGED failed

clearDeleteNotice ==
  /\ work.step = "delete" /\ work.todo = {}
  /\ notice' = IF notice = "deleteFailed" THEN "none" ELSE notice
  /\ work' = [step |-> "load"]
  /\ UNCHANGED <<rows, faults, failed>>

removeMissingThenLoad == work.step = "load" /\ Load("removal")

Loader ==
  /\ \/ Refresh \/ FindToRemove \/ removeMissingRows \/ clearDeleteNotice
     \/ removeMissingThenLoad
  /\ UNCHANGED <<statsVars, focused, sheet, queue, last, shown, visits>>

\* The request is done: it is remembered, and published if it is the latest.
storageLoader ==
  /\ work.step = "publish"
  /\ last' = work.snapshot
  /\ shown' = IF Head(queue).latest THEN work.snapshot ELSE shown
  /\ queue' = Tail(queue) /\ work' = Idle
  /\ UNCHANGED <<statsVars, rows, notice, focused, sheet, faults, visits, failed>>

-----------------------------------------------------------------------------
(* The section.                                                            *)

nextStorageSheet(kind, event) ==
  CASE event = "open" -> "storage"
    [] event = "askRemove" -> IF kind = "storage" THEN "confirm" ELSE kind
    [] event \in {"remove", "cancelRemove"} -> IF kind = "confirm" THEN "storage" ELSE kind
    [] event = "dismiss" -> "none"

\* The chip that asks is drawn while something is missing.
StorageRows == {r \in shown.missing : sheet = "storage"}

\* A sheet that appears refreshes, also the storage sheet that comes back
\* from under the question.
StorageSheets ==
  /\ focused
  /\ \/ /\ sheet = "none" /\ sheet' = nextStorageSheet(sheet, "open")
        /\ run(<<"refresh">>)
     \/ /\ StorageRows # {} /\ sheet' = nextStorageSheet(sheet, "askRemove")
        /\ UNCHANGED queue
     \/ /\ sheet # "confirm" /\ sheet' = nextStorageSheet(sheet, "dismiss")
        /\ sheet # sheet' /\ UNCHANGED queue
  /\ UNCHANGED <<statsVars, rows, notice, focused, work, last, shown, faults,
                 visits, failed>>

\* Remove and the sheet that comes back are two requests.
ConfirmRemoveSheet ==
  /\ focused /\ sheet = "confirm"
  /\ \/ /\ sheet' = nextStorageSheet(sheet, "remove")
        /\ run(<<"remove", "refresh">>)
     \/ /\ sheet' = nextStorageSheet(sheet, "cancelRemove")
        /\ run(<<"refresh">>)
  /\ UNCHANGED <<statsVars, rows, notice, focused, work, last, shown, faults,
                 visits, failed>>

\* Each visit reads the practice time anew; a visit that ended no longer
\* takes its answer.
\* Mutant: any answer is taken.
takesAny(read) == TRUE
takes(read) == read.live

usePracticeStats ==
  /\ \E i \in DOMAIN stats.reads :
       stats' = [shown |-> IF takes(stats.reads[i]) THEN stats.reads[i].value ELSE stats.shown,
                 reads |-> RemoveAt(stats.reads, i)]
  /\ UNCHANGED <<storageVars, rows, sessions, focused, faults, visits>>

Focus ==
  /\ ~focused /\ visits < MaxVisits
  /\ focused' = TRUE /\ visits' = visits + 1
  /\ run(<<"refresh">>)
  /\ stats' = [stats EXCEPT !.reads = Append(@, [value |-> sessions, live |-> TRUE])]
  /\ UNCHANGED <<rows, notice, sheet, work, last, shown, sessions, faults, failed>>

Blur ==
  /\ focused /\ focused' = FALSE
  /\ cancel
  /\ stats' = [stats EXCEPT !.reads = [i \in DOMAIN @ |-> [@[i] EXCEPT !.live = FALSE]]]
  /\ UNCHANGED <<rows, notice, sheet, work, last, shown, sessions, faults, visits, failed>>

\* Elsewhere: audio goes from the phone, practice is stored.
Elsewhere ==
  /\ \/ \E r \in DOMAIN rows :
          rows[r] = "there" /\ rows' = [rows EXCEPT ![r] = "gone"] /\ UNCHANGED sessions
     \/ /\ ~focused /\ sessions < MaxVisits
        /\ sessions' = sessions + 1 /\ UNCHANGED rows
  /\ UNCHANGED <<storageVars, stats, focused, faults, visits>>

Init ==
  /\ rows = [r \in Rows |-> "there"] /\ notice = "none"
  /\ focused = FALSE /\ sheet = "none"
  /\ queue = <<>> /\ work = Idle
  /\ last = EMPTY_STORAGE /\ shown = EMPTY_STORAGE
  /\ stats = [shown |-> 0, reads |-> <<>>] /\ sessions = 0
  /\ faults = 0 /\ visits = 0 /\ failed = FALSE

DataSection == StorageSheets \/ ConfirmRemoveSheet
Next == \/ Loader \/ storageLoader \/ DataSection
        \/ usePracticeStats \/ Focus \/ Blur \/ Elsewhere

Spec == Init /\ [][Next]_vars

-----------------------------------------------------------------------------
(* Properties.                                                             *)

Settled == focused /\ queue = <<>>

\* With nothing under way, the section offers to remove no row that is
\* already out of the library, and says that a removal failed for as long
\* as it left something, however the reads of the two sheets crossed; what
\* failed is not left for the Songs screen to say again.
StorageTells ==
  Settled => /\ shown.missing \subseteq DOMAIN rows
             /\ shown.removalFailed = failed
             /\ notice # "deleteFailed"

\* The practice line never goes back to an earlier count.
StatsGoOn == stats'.shown >= stats.shown
=============================================================================
