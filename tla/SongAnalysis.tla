---------------------------- MODULE SongAnalysis ----------------------------
(***************************************************************************)
(* The analysis of a library song, across the three places that keep its   *)
(* state: the songs table with the store that writes it (core-db's and     *)
(* core-state's song library), the unique work and the result files of the *)
(* native side (AnalysisWorker, AnalysisRun, AnalysisStore), and the       *)
(* events between them.  The process may die at any point; the table, the  *)
(* work and the files outlive it.                                          *)
(*                                                                         *)
(* Database calls queue in the transactor and are served in order; what    *)
(* their callers do next is a step of its own, before which the process    *)
(* may die.  A result says whether a grid was found.  A call may fail in   *)
(* the database, a run may be unable to write its marker or its result or  *)
(* to tell it, and a result file may not let itself be deleted.            *)
(***************************************************************************)
EXTENDS Naturals, Sequences, FiniteSets, SequencesExt

CONSTANTS Songs,       \* songs that may be imported
          MaxTaps,     \* bound: imports, deletes and re-analyses
          MaxFaults    \* bound: deaths, and calls, runs and files that fail

MAX_INTERRUPTED_ATTEMPTS == 2

VARIABLES row,       \* [song -> its row in the table, or NoRow]
          work,      \* [song -> its unique work: none or enqueued]
          holder,    \* the run that has the analysis lock
          marker,    \* [song -> attempts in its .running file, 0 without]
          results,   \* [song -> the result file, or NoFile]
          removing,  \* result files the io threads are to delete
          events,    \* results on their way to the store
          calls,     \* calls waiting in the transactor
          answered,  \* the call whose caller has still to go on, or NoCall
          shown,     \* [song -> its row as the list last read it, or NoRow]
          app,       \* where the app's start is
          unread,    \* results start() has still to receive
          listFailed,  \* the list was not read when it was last asked for
          taps, faults,
          died,      \* ghost: [song -> runs of it in a row that the process died
                     \* in, or whose marker was cut short]
          missed,    \* ghost: songs being analysed that a failure took the work or
                     \* the result from, in this life of the app
          unstored   \* ghost: songs whose result file was kept by a failure, in
                     \* this life of the app

vars == <<row, work, holder, marker, results, removing, events, calls, answered,
          shown, app, unread, listFailed, taps, faults, died, missed, unstored>>
store == <<row, events, calls, answered, shown, app, unread, listFailed, taps>>
native == <<work, holder, marker, results, removing, died, missed, unstored>>

-----------------------------------------------------------------------------
(* A song's row and what an analysis makes of it.                          *)

NoRow == [status |-> "gone", grid |-> FALSE, error |-> "none"]
InLibrary(s) == row[s] # NoRow

insertSong == [status |-> "analyzing", grid |-> FALSE, error |-> "none"]

ok(grid) == [ok |-> TRUE, grid |-> grid, error |-> "none"]
failed(error) == [ok |-> FALSE, grid |-> FALSE, error |-> error]
NoFile == failed("no file")

\* Mutant: a failed analysis takes the grid with it.
analysisFieldsBare(r, result) ==
  [status |-> IF result.ok THEN "done" ELSE "failed",
   grid |-> result.grid, error |-> result.error]

\* analysisFields: a failure keeps the previous analysis.
analysisFields(r, result) ==
  IF result.ok
  THEN [status |-> "done", grid |-> result.grid, error |-> "none"]
  ELSE [r EXCEPT !.status = "failed", !.error = result.error]

-----------------------------------------------------------------------------
(* Native: unique work, its run and the files beside the song.             *)

\* What waits in the transactor.
Call(kind, songs) == [kind |-> kind, songs |-> songs, result |-> failed("none")]
Apply(kind, s, result) == [kind |-> kind, songs |-> {s}, result |-> result]
NoCall == Call("none", {})

Idle == [song |-> "none", stopped |-> FALSE, at |-> "idle"]
Runs(s) == holder.song = s
Analyzing(s) == row[s].status = "analyzing"

\* Its work waits, or runs and was not stopped.
HasWork(s) == work[s] = "enqueued" \/ (Runs(s) /\ ~holder.stopped)

\* Something of the outside fails, or the process.
Fails == faults < MaxFaults /\ faults' = faults + 1

Init ==
  /\ row = [s \in Songs |-> NoRow]
  /\ work = [s \in Songs |-> "none"]
  /\ holder = Idle
  /\ marker = [s \in Songs |-> 0]
  /\ results = [s \in Songs |-> NoFile]
  /\ removing = <<>>
  /\ events = <<>> /\ calls = <<>> /\ answered = NoCall
  /\ shown = [s \in Songs |-> NoRow]
  /\ app = "dead" /\ unread = <<>>
  /\ listFailed = FALSE
  /\ taps = 0 /\ faults = 0
  /\ died = [s \in Songs |-> 0] /\ missed = {} /\ unstored = {}

\* enqueueUniqueWork KEEP: work that waits or runs stays as it is.
Keep(w, h, songs) ==
  [s \in Songs |-> IF s \in songs /\ (h.song # s \/ h.stopped) THEN "enqueued"
                                                               ELSE w[s]]

\* REPLACE, and a cancellation, stop the run there is.
Stopped(h, songs) == IF h.song \in songs THEN [h EXCEPT !.stopped = TRUE] ELSE h

\* A worker starts: it takes the lock, and gives up on a song that was running
\* when the process died twice before.
AnalysisStart(s) ==
  /\ holder = Idle /\ work[s] = "enqueued"
  /\ work' = [work EXCEPT ![s] = "none"]
  /\ IF marker[s] >= MAX_INTERRUPTED_ATTEMPTS
     THEN /\ marker' = [marker EXCEPT ![s] = 0]
          /\ holder' = [song |-> s, stopped |-> FALSE, at |-> "saving",
                        result |-> failed("interrupted")]
     ELSE /\ marker' = [marker EXCEPT ![s] = @ + 1]
          /\ holder' = [song |-> s, stopped |-> FALSE, at |-> "analyzing"]
  /\ UNCHANGED <<results, removing, faults, died, missed, unstored>>
  /\ UNCHANGED store

\* ... or cannot write its marker, which is as it was or is cut short, and that
\* reads as one attempt: the work has failed, without a result.
AnalysisStartFails(s) ==
  /\ holder = Idle /\ work[s] = "enqueued" /\ Fails
  /\ work' = [work EXCEPT ![s] = "none"]
  /\ missed' = IF Analyzing(s) THEN missed \cup {s} ELSE missed
  /\ \/ UNCHANGED <<marker, died>>
     \/ /\ marker[s] < MAX_INTERRUPTED_ATTEMPTS
        /\ marker' = [marker EXCEPT ![s] = 1]
        /\ died' = [died EXCEPT ![s] = IF marker[s] = 0 THEN @ + 1 ELSE @]
  /\ UNCHANGED <<holder, results, removing, unstored>> /\ UNCHANGED store

\* Mutant: the marker of a run that ends is left behind.
clearRunningNot(s) == marker

clearRunning(s) == [marker EXCEPT ![s] = 0]

\* The analysis ends, in a result or in nothing when it was stopped.
AnalysisEnd ==
  /\ holder.at = "analyzing"
  /\ marker' = clearRunning(holder.song)
  /\ died' = [died EXCEPT ![holder.song] = 0]
  /\ IF holder.stopped THEN holder' = Idle
     ELSE \E result \in {ok(TRUE), ok(FALSE), failed("internal")} :
            holder' = [song |-> holder.song, stopped |-> FALSE,
                       at |-> "saving", result |-> result]
  /\ UNCHANGED <<work, results, removing, faults, missed, unstored>>
  /\ UNCHANGED store

\* The result is stored, whether or not it was stopped since it was looked at.
AnalysisSave ==
  /\ holder.at = "saving"
  /\ results' = [results EXCEPT ![holder.song] = holder.result]
  /\ holder' = [holder EXCEPT !.at = "emitting"]
  /\ unstored' = unstored \ {holder.song}
  /\ UNCHANGED <<work, marker, removing, faults, died, missed>>
  /\ UNCHANGED store

\* ... or cannot be: the run ends and nobody is told, what was stored before stays.
AnalysisSaveFails ==
  /\ holder.at = "saving" /\ Fails
  /\ holder' = Idle
  /\ missed' = IF Analyzing(holder.song) /\ ~holder.stopped
               THEN missed \cup {holder.song} ELSE missed
  /\ UNCHANGED <<work, marker, results, removing, died, unstored>>
  /\ UNCHANGED store

\* ... and told to the store if it listens.
AnalysisEmit ==
  /\ holder.at = "emitting"
  /\ events' = IF app = "dead" THEN events
               ELSE Append(events, [song |-> holder.song, result |-> holder.result])
  /\ holder' = Idle
  /\ UNCHANGED <<row, work, marker, results, removing, calls, answered, shown, app,
                 unread, listFailed, taps, faults, died, missed, unstored>>

\* ... or cannot be told: what is stored waits for the next start.
AnalysisEmitFails ==
  /\ holder.at = "emitting" /\ app # "dead" /\ Fails
  /\ holder' = Idle
  /\ missed' = IF Analyzing(holder.song) /\ ~holder.stopped
               THEN missed \cup {holder.song} ELSE missed
  /\ unstored' = IF results[holder.song] # NoFile
                 THEN unstored \cup {holder.song} ELSE unstored
  /\ UNCHANGED <<work, marker, results, removing, died>> /\ UNCHANGED store

\* An io thread deletes a result file, which may fail.
RemoveResult ==
  /\ removing # <<>>
  /\ removing' = Tail(removing)
  /\ \/ /\ results' = [results EXCEPT ![Head(removing)] = NoFile]
        /\ unstored' = unstored \ {Head(removing)}
        /\ UNCHANGED faults
     \/ Fails /\ unstored' = unstored \cup {Head(removing)} /\ UNCHANGED results
  /\ UNCHANGED <<work, holder, marker, died, missed>> /\ UNCHANGED store

-----------------------------------------------------------------------------
(* The store.                                                              *)

\* refresh.
refreshed(queue) == Append(queue, Call("list", {}))

\* start: listen first, then read the results that are stored.
StartListening ==
  /\ app = "dead"
  /\ app' = "reading"
  /\ UNCHANGED <<row, events, calls, answered, shown, unread, listFailed, taps, faults>>
  /\ UNCHANGED native

PendingRead ==
  /\ app = "reading"
  /\ app' = "receiving"
  /\ unread' = SetToSeq({[song |-> s, result |-> results[s]] :
                           s \in {t \in Songs : results[t] # NoFile}})
  /\ UNCHANGED <<row, events, calls, answered, shown, listFailed, taps, faults>>
  /\ UNCHANGED native

\* Each is received before the next, and then what is left unfinished is claimed.
PendingReceive ==
  /\ app = "receiving" /\ answered.kind # "pending"
  /\ \A i \in 1 .. Len(calls) : calls[i].kind # "pending"
  /\ IF unread = <<>>
     THEN /\ calls' = Append(calls, Call("claim", {}))
          /\ app' = "claiming"
          /\ UNCHANGED unread
     ELSE /\ calls' = Append(calls, Apply("pending", Head(unread).song,
                                          Head(unread).result))
          /\ unread' = Tail(unread)
          /\ UNCHANGED app
  /\ UNCHANGED <<row, events, answered, shown, listFailed, taps, faults>>
  /\ UNCHANGED native

\* receiveAnalysis.
receiveAnalysis ==
  /\ app # "dead" /\ events # <<>>
  /\ calls' = Append(calls, Apply("apply", Head(events).song, Head(events).result))
  /\ events' = Tail(events)
  /\ UNCHANGED <<row, answered, shown, app, unread, listFailed, taps, faults>>
  /\ UNCHANGED native

\* Mutant: only songs that were never started are taken up again.
claimsPending(r) == r.status = "pending"

claims(r) == r.status \in {"pending", "analyzing"}

applyAnalysis(r, result) == analysisFields(r, result)
claimUnfinished(r) == [r EXCEPT !.status = "analyzing"]
beginAnalysis(r) == [r EXCEPT !.status = "analyzing", !.error = "none"]
deleteSong(r) == NoRow

\* The transactor serves the first call, once the caller before went on.  A call
\* gives back the songs it found.
Serve ==
  /\ calls # <<>> /\ answered = NoCall
  /\ LET c == Head(calls)
         found == CASE c.kind = "claim"  -> {s \in Songs : claims(row[s])}
                    [] c.kind = "insert" -> c.songs
                    [] OTHER -> {s \in c.songs : InLibrary(s)}
         written(r) == CASE c.kind \in {"apply", "pending"} -> applyAnalysis(r, c.result)
                         [] c.kind = "claim"  -> claimUnfinished(r)
                         [] c.kind = "insert" -> insertSong
                         [] c.kind = "begin"  -> beginAnalysis(r)
                         [] c.kind = "delete" -> deleteSong(r)
     IN /\ row' = [s \in Songs |-> IF s \in found THEN written(row[s]) ELSE row[s]]
        /\ shown' = IF c.kind = "list" THEN row ELSE shown
        /\ listFailed' = (listFailed /\ c.kind # "list")
        /\ missed' = missed \ found
        /\ answered' = CASE c.kind = "list" -> NoCall
                         [] c.kind \in {"apply", "pending"} -> c
                         [] OTHER -> [c EXCEPT !.songs = found]
  /\ calls' = Tail(calls)
  /\ UNCHANGED <<events, app, unread, taps, faults, work, holder, marker,
                 results, removing, died, unstored>>

\* ... or it fails, and what its caller does then.  A result that is not stored is
\* not acknowledged: its file is kept for the next start (receiveAnalysis).  A
\* claim that fails ends the start, which goes on listening (songLibraryRuntime).
ServeFails ==
  /\ calls # <<>> /\ answered = NoCall /\ Fails
  /\ LET c == Head(calls)
         lost == CASE c.kind \in {"apply", "pending"} -> c.songs
                   [] c.kind = "claim" -> Songs
                   [] OTHER -> {}
     IN /\ calls' = IF c.kind \in {"apply", "pending", "insert"}
                    THEN refreshed(Tail(calls)) ELSE Tail(calls)
        /\ listFailed' = (listFailed \/ c.kind = "list")
        /\ app' = IF c.kind = "claim" THEN "unclaimed" ELSE app
        /\ missed' = missed \cup {s \in lost : Analyzing(s) /\ ~HasWork(s)}
        /\ unstored' = unstored \cup {s \in lost : /\ c.kind # "claim"
                                                 /\ results[s] # NoFile}
  /\ UNCHANGED <<row, work, holder, marker, results, removing, events, answered,
                 shown, unread, taps, died>>

GoesOn(kinds) ==
  /\ answered.kind \in kinds
  /\ answered' = NoCall
  /\ UNCHANGED <<row, results, marker, events, shown, unread, listFailed, taps,
                 faults, died, missed, unstored>>

\* receiveAnalysis, stored: only now is the result acknowledged, whether it found
\* its song or not.
Acknowledge ==
  /\ GoesOn({"apply", "pending"})
  /\ removing' = removing \o SetToSeq(answered.songs)
  /\ calls' = refreshed(calls)
  /\ UNCHANGED <<work, holder, app>>

\* analyzeUnfinished, claimed: what has no work that still stands is given it.
AnalyzeClaimed ==
  /\ GoesOn({"claim"})
  /\ work' = Keep(work, holder, answered.songs)
  /\ app' = "started"
  /\ calls' = refreshed(calls)
  /\ UNCHANGED <<holder, removing>>

\* importDocument, inserted.
EnqueueImported ==
  /\ GoesOn({"insert"})
  /\ work' = Keep(work, holder, answered.songs)
  /\ calls' = refreshed(calls)
  /\ UNCHANGED <<holder, removing, app>>

\* reanalyze, begun: the work of the song it found is replaced.
Reanalyze ==
  /\ GoesOn({"begin"})
  /\ work' = [s \in Songs |-> IF s \in answered.songs THEN "enqueued" ELSE work[s]]
  /\ holder' = Stopped(holder, answered.songs)
  /\ calls' = refreshed(calls)
  /\ UNCHANGED <<removing, app>>

\* deleteRecord, deleted: its work is cancelled and its result removed.
CancelDeleted ==
  /\ GoesOn({"delete"})
  /\ work' = [s \in Songs |-> IF s \in answered.songs THEN "none" ELSE work[s]]
  /\ holder' = Stopped(holder, answered.songs)
  /\ removing' = removing \o SetToSeq(answered.songs)
  /\ calls' = refreshed(calls)
  /\ UNCHANGED app

\* The user imports a new file, or asks of a row the list shows.
Tapped(kind, s) ==
  /\ app # "dead" /\ taps < MaxTaps
  /\ taps' = taps + 1
  /\ calls' = Append(calls, Call(kind, {s}))
  /\ UNCHANGED <<row, events, answered, shown, app, unread, listFailed, faults>>
  /\ UNCHANGED native

\* Every file that is imported is given a uuid of its own.
Fresh(s) ==
  /\ ~InLibrary(s) /\ work[s] = "none" /\ ~Runs(s) /\ results[s] = NoFile
  /\ marker[s] = 0 /\ died[s] = 0 /\ shown[s] = NoRow /\ s \notin answered.songs
  /\ \A i \in 1 .. Len(calls) : s \notin calls[i].songs
  /\ \A queue \in {events, unread} : \A i \in 1 .. Len(queue) : queue[i].song # s
  /\ \A i \in 1 .. Len(removing) : removing[i] # s

importSong(s) == Fresh(s) /\ Tapped("insert", s)
reanalyze(s) == shown[s] # NoRow /\ Tapped("begin", s)
deleteRow(s) == shown[s] # NoRow /\ Tapped("delete", s)

\* The process dies: what it was running is marked, its work will be started again
\* with the process, and everything in memory is gone.
Die ==
  /\ app # "dead" \/ holder # Idle
  /\ Fails
  /\ app' = "dead"
  /\ work' = [s \in Songs |-> IF Runs(s) /\ ~holder.stopped THEN "enqueued"
                                                            ELSE work[s]]
  /\ died' = [s \in Songs |-> IF Runs(s) /\ holder.at = "analyzing"
                              THEN died[s] + 1 ELSE died[s]]
  /\ holder' = Idle
  /\ events' = <<>> /\ calls' = <<>> /\ unread' = <<>> /\ removing' = <<>>
  /\ answered' = NoCall /\ shown' = [s \in Songs |-> NoRow]
  /\ listFailed' = FALSE /\ missed' = {} /\ unstored' = {}
  /\ UNCHANGED <<row, marker, results, taps>>

Analysis == \/ AnalysisEnd \/ AnalysisSave \/ AnalysisSaveFails
            \/ AnalysisEmit \/ AnalysisEmitFails
Start == StartListening \/ PendingRead \/ PendingReceive
Continue == \/ Acknowledge \/ AnalyzeClaimed \/ EnqueueImported
            \/ Reanalyze \/ CancelDeleted

Next ==
  \/ \E s \in Songs : AnalysisStart(s) \/ AnalysisStartFails(s)
  \/ Analysis \/ RemoveResult \/ Start \/ receiveAnalysis
  \/ Serve \/ ServeFails \/ Continue
  \/ \E s \in Songs : importSong(s) \/ reanalyze(s) \/ deleteRow(s)
  \/ Die

Spec == Init /\ [][Next]_vars

-----------------------------------------------------------------------------
(* Properties.                                                             *)

\* Nothing is under way but work the scheduler has still to start.
Quiet ==
  /\ app \in {"started", "unclaimed"} /\ holder = Idle /\ answered = NoCall
  /\ calls = <<>> /\ events = <<>> /\ removing = <<>>

\* Once the app has started and nothing is under way, a song that shows it is
\* being analysed has its work enqueued, unless its run could write neither marker
\* nor result, its result was not told or not stored, or the start could not claim
\* it; a result is left unread only if telling, storing or deleting it failed; and
\* the list shows what the table holds unless it says that it could not be read.
\* So no order of deaths, stopped runs, late results and answers leaves a song
\* analysing for ever; a failure does until the app starts again, which these
\* exceptions do not outlast: a death ends them all (store.ts, start and
\* receiveAnalysis; AnalysisStore.kt).
AnalysisAttended ==
  Quiet =>
    /\ \A s \in Songs : /\ Analyzing(s) => work[s] = "enqueued" \/ s \in missed
                        /\ results[s] # NoFile => s \in unstored
    /\ app = "started" => listFailed \/ shown = row

\* A song is given up only after two runs of it one after the other that the
\* process died in or that left their marker cut short: no death beside a run, and
\* none before a run that ended, is counted (AnalysisStore's markers).
BlamedFairly ==
  \A s \in Songs : (Runs(s) /\ holder.at = "saving"
                    /\ holder.result.error = "interrupted")
                     => died[s] >= MAX_INTERRUPTED_ATTEMPTS

\* A song loses its beat grid only to an analysis that ended without beats, or to
\* the deletion of its row: never to one that failed, was stopped or died.
GridKept ==
  \A s \in Songs : row[s].grid /\ ~row'[s].grid =>
     \/ ~InLibrary(s)'
     \/ Head(calls).kind \in {"apply", "pending"} /\ Head(calls).result.ok
=============================================================================
