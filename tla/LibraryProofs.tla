----------------------------- MODULE LibraryProofs -----------------------------
(* What the app stores: that the storage section tells what is so, for any rows, *)
(* requests and faults; and of MCLibrary's run, what SongAnalysisProofs and       *)
(* StemLibraryProofs prove of the analysis and of the stem library, for the      *)
(* instances of them in that run.                                                *)
(*                                                                               *)
(* The storage section's invariant: who asks last in a visit is who is shown     *)
(* (LatestIsShown), and what is to be shown next is so (SnapshotIsSo).           *)
EXTENDS MCLibrary, SequenceTheorems, TLAPS

Requests == [kind : {"refresh", "remove"}, latest : BOOLEAN]
Snapshots == [report : BOOLEAN, missing : SUBSET Rows, removalFailed : BOOLEAN]

Types ==
  /\ DOMAIN rows \subseteq Rows
  /\ queue \in Seq(Requests)
  /\ last \in Snapshots /\ shown \in Snapshots /\ failed \in BOOLEAN
  /\ work.step \in {"idle", "delete", "load", "publish"}
  /\ work.step = "idle" => work = Idle
  /\ work.step = "publish" => work.snapshot \in Snapshots

LatestIsShown ==
  /\ work.step # "idle" => queue # <<>>
  /\ focused => IF queue = <<>> THEN shown = last ELSE queue[Len(queue)].latest

SnapshotIsSo ==
  LET next == IF work.step = "publish" THEN work.snapshot ELSE last
  IN /\ next.removalFailed = failed
     /\ work.step \in {"idle", "publish"} => next.missing \subseteq DOMAIN rows

NoticeIsTakenBack == notice = "deleteFailed" => work.step = "delete"

StorageInv == Types /\ LatestIsShown /\ SnapshotIsSo /\ NoticeIsTakenBack

LEMMA StorageInit == Init => StorageInv
<1> SUFFICES ASSUME Init PROVE StorageInv
  OBVIOUS
<1>1. last \in Snapshots /\ shown = last /\ last.missing = {} /\ ~last.removalFailed
  BY DEF Init, Snapshots, EMPTY_STORAGE
<1>2. work = Idle /\ work.step = "idle" /\ queue = <<>> /\ failed = FALSE
      /\ DOMAIN rows = Rows /\ notice = "none"
  BY DEF Init, Idle
<1>3. Types
  <2>1. queue \in Seq(Requests)
    BY <1>2, EmptySeq
  <2>2. failed \in BOOLEAN /\ work.step # "publish"
    BY <1>2
  <2> QED BY <1>1, <1>2, <2>1, <2>2 DEF Types
<1>4. SnapshotIsSo
  <2>1. last.removalFailed \in BOOLEAN
    BY <1>1 DEF Snapshots
  <2>2. last.removalFailed = failed
    BY <1>1, <1>2, <2>1
  <2> QED BY <1>1, <1>2, <2>2 DEF SnapshotIsSo
<1> QED BY <1>1, <1>2, <1>3, <1>4 DEF StorageInv, LatestIsShown, NoticeIsTakenBack

LEMMA FunctionIsSeq ==
  ASSUME NEW S, NEW n \in Nat, NEW f \in [1..n -> S]
  PROVE  f \in Seq(S) /\ Len(f) = n
OBVIOUS

\* A later request, or the end of the visit, outdates every other.
LEMMA OutdatedIs ==
  ASSUME Types
  PROVE  /\ Outdated \in Seq(Requests)
         /\ Len(Outdated) = Len(queue)
<1>1. queue \in Seq(Requests) /\ Len(queue) \in Nat /\ DOMAIN queue = 1..Len(queue)
  BY DEF Types
<1>2. \A i \in 1..Len(queue) : [queue[i] EXCEPT !.latest = FALSE] \in Requests
  <2>1. \A q \in Requests : [q EXCEPT !.latest = FALSE] \in Requests
    BY DEF Requests
  <2> QED BY <1>1, <2>1
<1>3. Outdated \in [1..Len(queue) -> Requests]
  BY <1>1, <1>2 DEF Outdated
<1> QED BY <1>1, <1>3, FunctionIsSeq

LEMMA RunAsks ==
  ASSUME Types, NEW kinds \in Seq({"refresh", "remove"}), kinds # <<>>, run(kinds)
  PROVE  /\ queue' \in Seq(Requests) /\ queue' # <<>>
         /\ queue'[Len(queue')].latest
<1> DEFINE asked == [i \in DOMAIN kinds |->
                       [kind |-> kinds[i], latest |-> i = Len(kinds)]]
<1>1. asked \in Seq(Requests) /\ Len(asked) = Len(kinds) /\ Len(kinds) \in Nat \ {0}
  <2>1. Len(kinds) \in Nat \ {0} /\ DOMAIN kinds = 1..Len(kinds)
    BY EmptySeq
  <2>2. \A i \in 1..Len(kinds) : kinds[i] \in {"refresh", "remove"}
    OBVIOUS
  <2>3. \A i \in 1..Len(kinds) :
           [kind |-> kinds[i], latest |-> i = Len(kinds)] \in Requests
    <3> TAKE i \in 1..Len(kinds)
    <3>1. (i = Len(kinds)) \in BOOLEAN
      OBVIOUS
    <3> QED BY <2>2, <3>1, Zenon DEF Requests
  <2>4. asked \in [1..Len(kinds) -> Requests]
    BY <2>1, <2>3
  <2> QED BY <2>1, <2>4, FunctionIsSeq
<1>2. asked[Len(kinds)].latest
  <2>1. Len(kinds) \in DOMAIN kinds
    BY <1>1
  <2> QED BY <2>1
<1>3. queue' = Outdated \o asked
  BY DEF run
<1> HIDE DEF asked
<1>4. PICK older \in Seq(Requests) : older = Outdated
  BY OutdatedIs
<1>5. older \o asked \in Seq(Requests) /\ Len(older \o asked) = Len(older) + Len(asked)
      /\ (older \o asked)[Len(older) + Len(asked)] = asked[Len(asked)]
      /\ Len(older) \in Nat
  BY <1>1, <1>4
<1> QED BY <1>1, <1>2, <1>3, <1>4, <1>5

\* What a refresh reads is so, and it goes on to say that a removal failed.
LEMMA LoadIs ==
  ASSUME StorageInv, NEW after \in {"visit", "removal"}, Load(after), queue # <<>>,
         UNCHANGED <<focused, queue, last, shown>>, work.step \in {"idle", "load"}
  PROVE  StorageInv'
<1>1. PICK report \in BOOLEAN, missing \in {{}, findMissingRows} :
        work' = [step |-> "publish",
                 snapshot |-> [report |-> report, missing |-> missing,
                   removalFailed |-> /\ missing # {}
                                     /\ after = "removal" \/ last.removalFailed]]
  BY DEF Load, loadStorage
<1>2. missing \subseteq DOMAIN rows /\ DOMAIN rows \subseteq Rows
  BY DEF StorageInv, Types, findMissingRows
<1>3. /\ work'.step = "publish" /\ work'.snapshot \in Snapshots
      /\ work'.snapshot.missing = missing
      /\ work'.snapshot.removalFailed
           = (missing # {} /\ (after = "removal" \/ last.removalFailed))
  BY <1>1, <1>2 DEF Snapshots
<1>4. last.removalFailed = failed
  BY DEF StorageInv, SnapshotIsSo
<1>5. failed' = (missing # {} /\ (after = "removal" \/ failed))
  BY <1>1, <1>3 DEF Load
<1>6. notice' = notice /\ rows' = rows /\ notice # "deleteFailed"
  BY DEF Load, StorageInv, NoticeIsTakenBack
<1> QED
  BY <1>2, <1>3, <1>4, <1>5, <1>6
     DEF StorageInv, Types, LatestIsShown, SnapshotIsSo, NoticeIsTakenBack

LEMMA LoaderInv == ASSUME StorageInv, Loader PROVE StorageInv'
<1> USE DEF StorageInv, Types, LatestIsShown, SnapshotIsSo, NoticeIsTakenBack
<1>1. CASE Refresh
  <2>1. queue # <<>> /\ work.step = "idle" /\ Load("visit")
    BY <1>1 DEF Refresh, Taken, Idle
  <2> QED BY <2>1, LoadIs DEF Loader
<1>2. CASE FindToRemove
  <2>1. queue # <<>> /\ work.step = "idle"
    BY <1>2 DEF FindToRemove, Taken, Idle
  <2>2. work'.step \in {"delete", "load"}
    BY <1>2 DEF FindToRemove
  <2> QED BY <1>2, <2>1, <2>2 DEF FindToRemove, Loader
<1>3. CASE removeMissingRows
  <2>1. PICK r \in work.todo :
          /\ work' = [work EXCEPT !.todo = @ \ {r}]
          /\ \/ /\ rows' = [q \in DOMAIN rows \ {r} |-> rows[q]]
                /\ UNCHANGED <<notice, faults>>
             \/ Fault /\ notice' = "deleteFailed" /\ UNCHANGED rows
    BY <1>3 DEF removeMissingRows
  <2>2. work'.step = work.step /\ work.step = "delete"
    BY <1>3, <2>1 DEF removeMissingRows
  <2>3. DOMAIN rows' \subseteq DOMAIN rows
    BY <2>1
  <2> QED BY <1>3, <2>2, <2>3 DEF removeMissingRows, Loader
<1>4. CASE clearDeleteNotice
  BY <1>4 DEF clearDeleteNotice, Loader
<1>5. CASE removeMissingThenLoad
  BY <1>5, LoadIs DEF removeMissingThenLoad, Loader
<1> QED BY <1>1, <1>2, <1>3, <1>4, <1>5 DEF Loader

\* The last request is the latest of a visit that lasts, and none is left after it.
LEMMA PublishInv == ASSUME StorageInv, storageLoader PROVE StorageInv'
<1> USE DEF StorageInv, Types, LatestIsShown, SnapshotIsSo, NoticeIsTakenBack
<1>1. /\ queue \in Seq(Requests) /\ queue # <<>> /\ queue' = Tail(queue)
      /\ work.snapshot \in Snapshots /\ last' = work.snapshot
      /\ work' = Idle /\ UNCHANGED <<rows, notice, focused, failed>>
  BY DEF storageLoader
<1>2. work'.step = "idle"
  BY <1>1 DEF Idle
<1>3. /\ queue' \in Seq(Requests)
      /\ queue' = <<>> => Head(queue) = queue[Len(queue)]
      /\ queue' # <<>> => queue'[Len(queue')] = queue[Len(queue)]
  <2>1. PICK q \in Seq(Requests), rest \in Seq(Requests) :
          q = queue /\ q # <<>> /\ rest = queue' /\ rest = Tail(q)
    BY <1>1
  <2>2. Len(rest) = Len(q) - 1 /\ Len(q) \in Nat \ {0}
    BY <2>1
  <2>3. CASE rest = <<>>
    <3>1. Len(q) = 1
      BY <2>2, <2>3, EmptySeq
    <3> QED BY <2>1, <2>3, <3>1
  <2>4. CASE rest # <<>>
    <3>1. Len(rest) \in 1..Len(rest)
      BY <2>1, <2>2, <2>4, EmptySeq
    <3>2. rest[Len(rest)] = q[Len(rest) + 1]
      BY <2>1, <3>1
    <3> QED BY <2>1, <2>2, <2>4, <3>2
  <2> QED BY <2>1, <2>3, <2>4
<1>4. shown' = IF Head(queue).latest THEN last' ELSE shown
  BY DEF storageLoader
<1>5. LatestIsShown'
  BY <1>1, <1>2, <1>3, <1>4
<1>6. SnapshotIsSo'
  BY <1>1, <1>2 DEF storageLoader
<1> QED BY <1>1, <1>2, <1>3, <1>4, <1>5, <1>6 DEF storageLoader

LEMMA StorageStep == ASSUME StorageInv, [Next]_vars PROVE StorageInv'
<1> USE DEF StorageInv, Types, LatestIsShown, SnapshotIsSo, NoticeIsTakenBack
<1> DEFINE Anew == <<"refresh">> Remove == <<"remove", "refresh">>
<1>0. /\ Anew \in Seq({"refresh", "remove"}) /\ Anew # <<>>
      /\ Remove \in Seq({"refresh", "remove"}) /\ Remove # <<>>
  OBVIOUS
<1>1. CASE Loader
  BY <1>1, LoaderInv
<1>2. CASE storageLoader
  BY <1>2, PublishInv
<1>3. ASSUME UNCHANGED <<rows, notice, work, last, shown, failed>>,
             \/ UNCHANGED <<queue, focused>> \/ run(Anew) \/ run(Remove)
      PROVE StorageInv'
  <2>1. CASE UNCHANGED <<queue, focused>>
    BY <1>3, <2>1
  <2>2. CASE run(Anew) \/ run(Remove)
    <3>1. /\ queue' \in Seq(Requests) /\ queue' # <<>>
          /\ queue'[Len(queue')].latest
      <4> HIDE DEF Anew, Remove
      <4> QED BY <1>0, <2>2, RunAsks
    <3> QED BY <1>3, <3>1
  <2> QED BY <1>3, <2>1, <2>2
<1>4. CASE StorageSheets
  BY <1>3, <1>4 DEF StorageSheets
<1>5. CASE ConfirmRemoveSheet
  BY <1>3, <1>5 DEF ConfirmRemoveSheet
<1>6. CASE usePracticeStats
  BY <1>6 DEF usePracticeStats, storageVars
<1>7. CASE Focus
  BY <1>3, <1>7 DEF Focus
<1>8. CASE Blur
  BY <1>8, OutdatedIs DEF Blur, cancel
<1>9. CASE Elsewhere
  <2>1. DOMAIN rows' = DOMAIN rows /\ UNCHANGED <<storageVars, focused>>
    BY <1>9 DEF Elsewhere
  <2> QED BY <2>1 DEF storageVars
<1>10. CASE UNCHANGED vars
  BY <1>10 DEF vars
<1> QED
  BY <1>1, <1>2, <1>4, <1>5, <1>6, <1>7, <1>8, <1>9, <1>10 DEF Next, DataSection

\* With nothing under way, the section offers to remove no row that is gone, and
\* says that a removal failed for as long as it left something.
THEOREM TheSectionTells == Spec => []StorageTells
<1>1. StorageInv => StorageTells
  <2> SUFFICES ASSUME StorageInv, focused, queue = <<>> PROVE StorageTells
    BY DEF StorageTells, Settled
  <2>1. work.step = "idle" /\ shown = last
    BY DEF StorageInv, Types, LatestIsShown
  <2> QED BY <2>1 DEF StorageInv, SnapshotIsSo, NoticeIsTakenBack, StorageTells
<1> QED BY <1>1, StorageInit, StorageStep, PTL DEF Spec

-----------------------------------------------------------------------------
(* MCLibrary. *)

LEMMA AnalysisIsOfSongs == Analysis!AnalysisConstants /\ Deaths!AnalysisConstants
BY LibraryAssumption, Analysis!FS_Singleton, Deaths!FS_Singleton
   DEF LibraryAssumption, Analysis!AnalysisConstants, Deaths!AnalysisConstants

LibraryInv ==
  /\ part = "analysis" => Analysis!IInv
  /\ part = "deaths" => Deaths!IInv
  /\ part = "stems" => StemSongs!IInv
  /\ part = "names" => StemNames!IInv

LEMMA LibraryInit == MCInit => LibraryInv
BY AnalysisIsOfSongs, Analysis!InitInv, Deaths!InitInv, StemSongs!InitInv, StemNames!InitInv
   DEF MCInit, LibraryInv

LEMMA LibraryPlays ==
  ASSUME [MCNext]_allVars
  PROVE  /\ part' = part
         /\ part = "analysis" => [Analysis!Next]_(Analysis!vars)
         /\ part = "deaths" => [Deaths!Next]_(Deaths!vars)
         /\ part = "stems" => [StemSongs!Next]_(StemSongs!vars)
         /\ part = "names" => [StemNames!Next]_(StemNames!vars)
BY DEF MCNext, Others, allVars, Rest1, Rest9, Rest10, Rest12, Rest15, Rest17,
       Analysis!vars, Deaths!vars, StemSongs!vars, StemNames!vars

LEMMA LibraryStep ==
  ASSUME LibraryInv, [MCNext]_allVars
  PROVE  LibraryInv'
BY LibraryPlays, AnalysisIsOfSongs, Analysis!NextInv, Deaths!NextInv,
   StemSongs!NextInv, StemNames!NextInv DEF LibraryInv

\* However often the process dies and whatever answers late, a song waits for its
\* analysis only while one is to come, or while a failure keeps it from it until the
\* next start; and it is given up only after its own runs died with the process or
\* could not be marked (MCLibrary's AnalysisComesToAnEnd).
THEOREM AnAnalysisComesToAnEnd == MCSpec => []AnalysisComesToAnEnd
<1>1. LibraryInv => AnalysisComesToAnEnd
  BY AnalysisIsOfSongs, Analysis!InvIsAttended, Deaths!InvIsAttended
     DEF LibraryInv, AnalysisComesToAnEnd
<1> QED BY <1>1, LibraryInit, LibraryStep, PTL DEF MCSpec

\* Whatever imports, replacements, deletions and sweeps fail, cross or die with the
\* process, a song's files and times stay its own (MCLibrary's StemFilesKept).
THEOREM StemFilesAreKept == MCSpec => []StemFilesKept
<1>1. LibraryInv => StemFilesKept
  BY StemSongs!InvIsKept, StemNames!InvIsKept DEF LibraryInv, StemFilesKept
<1> QED BY <1>1, LibraryInit, LibraryStep, PTL DEF MCSpec
================================================================================
