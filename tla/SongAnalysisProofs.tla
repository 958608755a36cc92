--------------------------- MODULE SongAnalysisProofs ---------------------------
(***************************************************************************)
(* An analysis comes to an end: proofs of SongAnalysis's properties for     *)
(* any number of songs, of taps, of deaths and of failures.                 *)
(*                                                                         *)
(* The argument is that nothing is lost between two of the places a song's  *)
(* state is kept but by a failure, which is noted.  A stored result is      *)
(* known of in memory, or the app has still to read it, or it could not be  *)
(* stored or deleted (ResultsHeardOf).  A song that shows it is being       *)
(* analysed has its work or its run, or its result is on the way to the     *)
(* table, or the call that made it so has still to be followed by its work, *)
(* or a failure has taken one of these from it since the app started        *)
(* (AnalyzingAttended).                                                     *)
(***************************************************************************)
EXTENDS SongAnalysis, FiniteSetTheorems, SequenceTheorems, TLAPS

\* "none" is the song of no run.
AnalysisConstants == "none" \notin Songs /\ IsFiniteSet(Songs)

Errors == {"none", "no file", "internal", "interrupted"}
RowRecords == [status : {"gone", "analyzing", "done", "failed"}, grid : BOOLEAN,
               error : Errors]
ResultRecords == [ok : BOOLEAN, grid : BOOLEAN, error : Errors]
Messages == [song : Songs, result : ResultRecords]
Kinds == {"list", "claim", "insert", "begin", "delete", "apply", "pending"}
CallRecords ==
  {c \in [kind : Kinds, songs : SUBSET Songs, result : ResultRecords] :
     c.kind = "list" => c.songs = {}}

\* What the lock's holder may be.
Analyses == [song : Songs, stopped : BOOLEAN, at : {"analyzing"}]
Results == [song : Songs, stopped : BOOLEAN, at : {"saving", "emitting"},
            result : ResultRecords]
Holders == {Idle} \union Analyses \union Results

TableTypes ==
  /\ row \in [Songs -> RowRecords] /\ shown \in [Songs -> RowRecords]
  /\ app \in {"dead", "reading", "receiving", "claiming", "unclaimed", "started"}
  /\ listFailed \in BOOLEAN

CallTypes ==
  /\ calls \in Seq(CallRecords)
  /\ answered \in CallRecords \union {NoCall} /\ answered.kind # "list"
  /\ events \in Seq(Messages) /\ unread \in Seq(Messages)

RunTypes ==
  /\ holder \in Holders
  /\ work \in [Songs -> {"none", "enqueued"}]
  /\ marker \in [Songs -> Nat] /\ died \in [Songs -> Nat]

FileTypes == results \in [Songs -> ResultRecords] /\ removing \in Seq(Songs)

\* What is received and claimed is so in the order of the app's start.
StartInOrder ==
  /\ unread # <<>> => app = "receiving"
  /\ \A c \in ToSet(calls) \union {answered} :
        c.kind = "claim" => app \in {"claiming", "unclaimed", "started"}
  /\ app = "started" => \/ listFailed \/ shown = row \/ answered # NoCall
                        \/ \E c \in ToSet(calls) : c.kind = "list"

ResultsHeardOf ==
  \A s \in Songs : results[s] # NoFile =>
     \/ app \in {"dead", "reading"}
     \/ Runs(s) /\ holder.at = "emitting"
     \/ \E e \in ToSet(events) \union ToSet(unread) : e.song = s
     \/ \E c \in ToSet(calls) \union {answered} :
           c.kind \in {"apply", "pending"} /\ s \in c.songs
     \/ s \in ToSet(removing)
     \/ s \in unstored

Attended(s) ==
  \/ HasWork(s)
  \/ s \in missed
  \/ app \in {"dead", "reading", "receiving"}
  \/ answered.kind \in {"claim", "insert", "begin"} /\ s \in answered.songs
  \/ \E e \in ToSet(events) : e.song = s
  \/ \E c \in ToSet(calls) : c.kind = "claim" \/ (c.kind = "apply" /\ s \in c.songs)

AnalyzingAttended ==
  /\ \A s \in Songs : Analyzing(s) => Attended(s)
  /\ answered.kind = "delete" => \A s \in answered.songs : row[s] = NoRow

\* A song that is being imported is new to the table, and is imported once.
ImportsAreNew ==
  \A i \in DOMAIN calls : \A s \in calls[i].songs : calls[i].kind = "insert" =>
     /\ row[s] = NoRow
     /\ \A j \in DOMAIN calls : calls[j].kind = "insert" /\ s \in calls[j].songs => j = i

\* A marker counts the runs the process died in, or that cut it short, and the one
\* there is.
MarkersCount ==
  \A s \in Songs :
     marker[s] <= died[s] + (IF Runs(s) /\ holder.at = "analyzing" THEN 1 ELSE 0)

Types == TableTypes /\ CallTypes /\ RunTypes /\ FileTypes

IInv == /\ Types /\ StartInOrder /\ ResultsHeardOf /\ AnalyzingAttended
        /\ ImportsAreNew /\ MarkersCount /\ BlamedFairly
-----------------------------------------------------------------------------
(* Sequences and the sets of their elements.                                 *)

LEMMA EmptySet == ToSet(<<>>) = {} /\ \A S : <<>> \in Seq(S)
BY EmptySeq DEF ToSet

LEMMA AppendSet ==
  ASSUME NEW S, NEW q \in Seq(S), NEW e \in S
  PROVE  /\ Append(q, e) \in Seq(S) /\ Append(q, e) # <<>>
         /\ ToSet(Append(q, e)) = ToSet(q) \union {e}
         /\ Len(q) \in Nat /\ DOMAIN q = 1 .. Len(q)
         /\ DOMAIN Append(q, e) = 1 .. Len(q) + 1
         /\ \A i \in 1 .. Len(q) : Append(q, e)[i] = q[i]
         /\ Append(q, e)[Len(q) + 1] = e
<1>1. /\ Append(q, e) \in Seq(S) /\ Len(q) \in Nat /\ DOMAIN q = 1 .. Len(q)
      /\ DOMAIN Append(q, e) = 1 .. Len(q) + 1 /\ Append(q, e) # <<>>
      /\ \A i \in 1 .. Len(q) : Append(q, e)[i] = q[i]
      /\ Append(q, e)[Len(q) + 1] = e
  OBVIOUS
<1>2. ToSet(Append(q, e)) = ToSet(q) \union {e}
  BY <1>1, SMT DEF ToSet
<1> QED BY <1>1, <1>2

LEMMA TailSet ==
  ASSUME NEW S, NEW q \in Seq(S), q # <<>>
  PROVE  /\ Head(q) \in S /\ Head(q) = q[1] /\ Tail(q) \in Seq(S)
         /\ ToSet(q) = {Head(q)} \union ToSet(Tail(q))
         /\ Len(q) \in Nat \ {0} /\ DOMAIN q = 1 .. Len(q)
         /\ DOMAIN Tail(q) = 1 .. Len(q) - 1
         /\ \A i \in 1 .. Len(q) - 1 : Tail(q)[i] = q[i + 1]
<1>1. /\ Head(q) \in S /\ Head(q) = q[1] /\ Tail(q) \in Seq(S)
      /\ Len(q) \in Nat \ {0} /\ DOMAIN q = 1 .. Len(q)
      /\ DOMAIN Tail(q) = 1 .. Len(q) - 1
      /\ \A i \in 1 .. Len(q) - 1 : Tail(q)[i] = q[i + 1]
  OBVIOUS
<1>2. ASSUME NEW i \in 2 .. Len(q) PROVE i - 1 \in 1 .. Len(q) - 1 /\ Tail(q)[i - 1] = q[i]
  BY <1>1
<1>3. ToSet(q) = {Head(q)} \union ToSet(Tail(q))
  <2>1. ToSet(q) \subseteq {Head(q)} \union ToSet(Tail(q))
    <3> SUFFICES ASSUME NEW i \in 1 .. Len(q), i # 1 PROVE q[i] \in ToSet(Tail(q))
      BY <1>1 DEF ToSet
    <3> DEFINE r == Tail(q)
    <3>1. i - 1 \in DOMAIN r /\ r[i - 1] = q[i]
      BY <1>1, <1>2
    <3> HIDE DEF r
    <3> QED BY <3>1 DEF ToSet, r
  <2>2. {Head(q)} \union ToSet(Tail(q)) \subseteq ToSet(q)
    BY <1>1, SMT DEF ToSet
  <2> QED BY <2>1, <2>2
<1> QED BY <1>1, <1>3

LEMMA ConcatSet ==
  ASSUME NEW S, NEW q \in Seq(S), NEW r \in Seq(S)
  PROVE  q \o r \in Seq(S) /\ ToSet(q \o r) = ToSet(q) \union ToSet(r)
<1>1. /\ q \o r \in Seq(S) /\ Len(q) \in Nat /\ Len(r) \in Nat
      /\ DOMAIN q = 1 .. Len(q) /\ DOMAIN r = 1 .. Len(r)
      /\ DOMAIN (q \o r) = 1 .. Len(q) + Len(r)
      /\ \A i \in 1 .. Len(q) : (q \o r)[i] = q[i]
      /\ \A i \in 1 .. Len(r) : (q \o r)[Len(q) + i] = r[i]
  BY SMT
<1>2. ToSet(q) \subseteq ToSet(q \o r)
  BY <1>1, SMT DEF ToSet
<1>3. ToSet(r) \subseteq ToSet(q \o r)
  <2> SUFFICES ASSUME NEW i \in 1 .. Len(r) PROVE r[i] \in ToSet(q \o r)
    BY <1>1 DEF ToSet
  <2>1. Len(q) + i \in DOMAIN (q \o r) /\ (q \o r)[Len(q) + i] = r[i]
    BY <1>1
  <2> QED BY <2>1, Zenon DEF ToSet
<1>4. ASSUME NEW i \in 1 .. Len(q) + Len(r), ~(i \in 1 .. Len(q))
      PROVE  i - Len(q) \in 1 .. Len(r) /\ (q \o r)[i] = r[i - Len(q)]
  BY <1>1, <1>4
<1>5. ToSet(q \o r) \subseteq ToSet(q) \union ToSet(r)
  BY <1>1, <1>4, SMT DEF ToSet
<1> QED BY <1>1, <1>2, <1>3, <1>5

LEMMA ElementsIn == ASSUME NEW S, NEW q \in Seq(S) PROVE ToSet(q) \subseteq S
BY DEF ToSet

LEMMA SetToSeqIs ==
  ASSUME NEW S, IsFiniteSet(S)
  PROVE  SetToSeq(S) \in Seq(S) /\ ToSet(SetToSeq(S)) = S
<1> DEFINE n == Cardinality(S)
<1>1. n \in Nat /\ \E f : f \in Bijection(1 .. n, S)
  BY FS_CardinalityType DEF ExistsBijection
<1>2. PICK f : f \in Bijection(1 .. n, S)
  BY <1>1
<1>3. f \in [1 .. n -> S] /\ IsInjective(f)
  BY <1>2 DEF Bijection, Injection, IsInjective
<1>4. SetToSeq(S) \in [1 .. n -> S] /\ IsInjective(SetToSeq(S))
  <2>1. \E g \in [1 .. n -> S] : IsInjective(g)
    BY <1>3
  <2> QED BY <2>1 DEF SetToSeq
<1> DEFINE g == SetToSeq(S)
<1> HIDE DEF g
<1>5. g \in Injection(1 .. n, S)
  BY <1>4 DEF g, Injection, IsInjective
<1>6. g \in Surjection(1 .. n, S)
  BY <1>1, <1>5, FS_Injection, FS_Interval
<1> QED BY <1>1, <1>4, <1>6 DEF g, ToSet, Surjection

-----------------------------------------------------------------------------
(* The records.                                                              *)

LEMMA RecordsAre ==
  /\ NoRow \in RowRecords /\ insertSong \in RowRecords /\ NoRow.grid = FALSE
  /\ NoRow.status = "gone" /\ insertSong.status = "analyzing"
  /\ NoFile \in ResultRecords /\ ok(TRUE) \in ResultRecords /\ ok(FALSE) \in ResultRecords
  /\ failed("internal") \in ResultRecords /\ failed("interrupted") \in ResultRecords
  /\ failed("none") \in ResultRecords
  /\ ok(TRUE).error = "none" /\ ok(FALSE).error = "none"
  /\ failed("internal").error = "internal"
BY DEF NoRow, insertSong, NoFile, ok, failed, RowRecords, ResultRecords, Errors

LEMMA CallsAre ==
  ASSUME NEW kind \in Kinds, NEW songs \in SUBSET Songs, kind = "list" => songs = {}
  PROVE  /\ Call(kind, songs) \in CallRecords
         /\ Call(kind, songs).kind = kind /\ Call(kind, songs).songs = songs
BY RecordsAre DEF Call, CallRecords

LEMMA AppliesAre ==
  ASSUME NEW kind \in {"apply", "pending"}, NEW s \in Songs, NEW result \in ResultRecords
  PROVE  /\ Apply(kind, s, result) \in CallRecords
         /\ Apply(kind, s, result).kind = kind /\ Apply(kind, s, result).songs = {s}
BY DEF Apply, CallRecords, Kinds

LEMMA NoCallIs ==
  /\ NoCall.kind = "none" /\ NoCall.songs = {}
  /\ \A c \in CallRecords : c # NoCall /\ c.kind \in Kinds /\ c.songs \in SUBSET Songs
                            /\ c.result \in ResultRecords
BY DEF NoCall, Call, CallRecords, Kinds

LEMMA HoldersAre ==
  ASSUME AnalysisConstants, NEW h \in Holders
  PROVE  /\ h.stopped \in BOOLEAN
         /\ h = Idle => h.song \notin Songs /\ h.at = "idle"
         /\ h # Idle => h.song \in Songs
         /\ h.at = "idle" => h = Idle
         /\ h.at = "analyzing" => h \in Analyses
         /\ h.at \in {"saving", "emitting"} => h \in Results /\ h.result \in ResultRecords
<1>1. CASE h = Idle
  BY <1>1 DEF Idle, AnalysisConstants
<1>2. CASE h \in Analyses
  BY <1>2 DEF Analyses, Idle, AnalysisConstants
<1>3. CASE h \in Results
  BY <1>3 DEF Results, Idle, AnalysisConstants
<1> QED BY <1>1, <1>2, <1>3 DEF Holders

LEMMA StoppedIs ==
  ASSUME AnalysisConstants, NEW h \in Holders, NEW songs \in SUBSET Songs
  PROVE  /\ Stopped(h, songs) \in Holders
         /\ Stopped(h, songs).song = h.song /\ Stopped(h, songs).at = h.at
         /\ h.song \in songs => Stopped(h, songs).stopped
         /\ h.song \notin songs => Stopped(h, songs) = h
         /\ h.at = "saving" => Stopped(h, songs).result = h.result
<1>1. CASE h.song \notin songs
  BY <1>1 DEF Stopped
<1>2. CASE h.song \in songs
  <2>1. h # Idle /\ h.song \in Songs
    BY <1>2, HoldersAre
  <2>2. Stopped(h, songs) = [h EXCEPT !.stopped = TRUE]
    BY <1>2 DEF Stopped
  <2>3. CASE h \in Analyses
    BY <1>2, <2>2, <2>3 DEF Holders, Analyses
  <2>4. CASE h \in Results
    BY <1>2, <2>2, <2>4 DEF Holders, Results
  <2> QED BY <2>1, <2>3, <2>4 DEF Holders
<1> QED BY <1>1, <1>2

LEMMA KeepIs ==
  ASSUME RunTypes, NEW songs \in SUBSET Songs
  PROVE  /\ Keep(work, holder, songs) \in [Songs -> {"none", "enqueued"}]
         /\ \A s \in Songs : work[s] = "enqueued" => Keep(work, holder, songs)[s] = "enqueued"
         /\ \A s \in songs : Keep(work, holder, songs)[s] = "enqueued"
                             \/ (Runs(s) /\ ~holder.stopped)
BY DEF Keep, RunTypes, Runs

-----------------------------------------------------------------------------
(* Steps of the native side: the store stays as it is.                       *)

\* Nothing of the table changes, nor of what is on its way there.
LEMMA StoreStays ==
  ASSUME IInv, UNCHANGED store
  PROVE  /\ TableTypes' /\ CallTypes' /\ StartInOrder' /\ ImportsAreNew'
         /\ (answered.kind = "delete" => \A s \in answered.songs : row[s] = NoRow)'
<1>1. UNCHANGED <<row, events, calls, answered, shown, app, unread, listFailed>>
  BY DEF store
<1>2. TableTypes' /\ CallTypes'
  BY <1>1 DEF IInv, Types, TableTypes, CallTypes
<1>3. StartInOrder' /\ ImportsAreNew'
  BY <1>1 DEF IInv, StartInOrder, ImportsAreNew
<1>4. (answered.kind = "delete" => \A s \in answered.songs : row[s] = NoRow)'
  BY <1>1 DEF IInv, AnalyzingAttended, Analyzing
<1> QED BY <1>2, <1>3, <1>4

LEMMA StartInv ==
  ASSUME AnalysisConstants, IInv, NEW s \in Songs, AnalysisStart(s)
  PROVE  IInv'
<1>1. /\ UNCHANGED store /\ UNCHANGED <<results, removing, died, missed, unstored>>
      /\ UNCHANGED <<row, events, calls, answered, shown, app, unread, listFailed>>
      /\ holder = Idle /\ work' = [work EXCEPT ![s] = "none"]
  BY DEF AnalysisStart, store
<1>2. holder.song \notin Songs /\ holder.at = "idle"
  BY <1>1 DEF Idle, AnalysisConstants
<1>3. /\ holder' \in Holders /\ holder'.song = s /\ holder'.stopped = FALSE
      /\ holder'.at \in {"analyzing", "saving"}
  <2>1. CASE marker[s] >= MAX_INTERRUPTED_ATTEMPTS
    <3>1. holder' = [song |-> s, stopped |-> FALSE, at |-> "saving",
                     result |-> failed("interrupted")]
      BY <2>1 DEF AnalysisStart
    <3> QED BY <3>1, RecordsAre DEF Holders, Results
  <2>2. CASE ~(marker[s] >= MAX_INTERRUPTED_ATTEMPTS)
    <3>1. holder' = [song |-> s, stopped |-> FALSE, at |-> "analyzing"]
      BY <2>2 DEF AnalysisStart
    <3> QED BY <3>1 DEF Holders, Analyses
  <2> QED BY <2>1, <2>2
<1>4. /\ marker \in [Songs -> Nat] /\ died \in [Songs -> Nat]
      /\ work \in [Songs -> {"none", "enqueued"}]
      /\ \A t \in Songs : marker[t] <= died[t]
  BY <1>2 DEF IInv, Types, RunTypes, MarkersCount, Runs
<1>5. \/ /\ marker[s] >= 2 /\ marker' = [marker EXCEPT ![s] = 0] /\ holder'.at = "saving"
      \/ /\ marker' = [marker EXCEPT ![s] = @ + 1] /\ holder'.at = "analyzing"
  BY <1>4 DEF AnalysisStart, MAX_INTERRUPTED_ATTEMPTS
<1>6. Types'
  <2>1. RunTypes'
    BY <1>1, <1>3, <1>4, <1>5 DEF RunTypes
  <2>2. FileTypes'
    BY <1>1 DEF IInv, Types, FileTypes
  <2> QED BY <1>1, <2>1, <2>2, StoreStays DEF Types
<1>7. MarkersCount'
  BY <1>1, <1>3, <1>4, <1>5 DEF MarkersCount, Runs
<1>8. BlamedFairly'
  <2> SUFFICES ASSUME NEW t \in Songs, (Runs(t) /\ holder.at = "saving")'
               PROVE  died'[t] >= 2
    BY DEF BlamedFairly, MAX_INTERRUPTED_ATTEMPTS
  <2> QED BY <1>1, <1>3, <1>4, <1>5 DEF Runs
<1>9. AnalyzingAttended'
  <2> SUFFICES ASSUME NEW t \in Songs, row[t].status = "analyzing" PROVE Attended(t)'
    BY <1>1, StoreStays DEF AnalyzingAttended, Analyzing
  <2>1. Attended(t)
    BY DEF IInv, AnalyzingAttended, Analyzing
  <2> QED BY <1>1, <1>2, <1>3, <1>4, <2>1 DEF Attended, HasWork, Runs
<1>10. ResultsHeardOf'
  BY <1>1, <1>2 DEF IInv, ResultsHeardOf, Runs
<1> QED BY <1>1, <1>6, <1>7, <1>8, <1>9, <1>10, StoreStays DEF IInv

\* A run that cannot be marked takes the song's work, which is noted.
LEMMA StartFailsInv ==
  ASSUME AnalysisConstants, IInv, NEW s \in Songs, AnalysisStartFails(s)
  PROVE  IInv'
<1>1. /\ UNCHANGED store /\ UNCHANGED <<holder, results, removing, unstored>>
      /\ UNCHANGED <<row, events, calls, answered, shown, app, unread, listFailed>>
      /\ holder = Idle /\ work' = [work EXCEPT ![s] = "none"]
      /\ missed' = IF Analyzing(s) THEN missed \cup {s} ELSE missed
  BY DEF AnalysisStartFails, store
<1>2. holder.song \notin Songs /\ holder.at = "idle"
  BY <1>1 DEF Idle, AnalysisConstants
<1>3. /\ marker \in [Songs -> Nat] /\ died \in [Songs -> Nat]
      /\ work \in [Songs -> {"none", "enqueued"}] /\ \A t \in Songs : marker[t] <= died[t]
  BY <1>2 DEF IInv, Types, RunTypes, MarkersCount, Runs
<1>4. \/ UNCHANGED <<marker, died>>
      \/ /\ marker' = [marker EXCEPT ![s] = 1]
         /\ died' = [died EXCEPT ![s] = IF marker[s] = 0 THEN @ + 1 ELSE @]
  BY DEF AnalysisStartFails
<1>5. /\ marker' \in [Songs -> Nat] /\ died' \in [Songs -> Nat]
      /\ \A t \in Songs : marker'[t] <= died'[t]
  BY <1>3, <1>4
<1>6. Types'
  <2>1. RunTypes' /\ FileTypes'
    BY <1>1, <1>3, <1>5 DEF IInv, Types, RunTypes, FileTypes
  <2> QED BY <1>1, <2>1, StoreStays DEF Types
<1>7. MarkersCount' /\ BlamedFairly'
  BY <1>1, <1>2, <1>5 DEF MarkersCount, BlamedFairly, Runs
<1>8. AnalyzingAttended'
  <2> SUFFICES ASSUME NEW t \in Songs, Analyzing(t) PROVE Attended(t)'
    BY <1>1, StoreStays DEF AnalyzingAttended, Analyzing
  <2>1. Attended(t)
    BY DEF IInv, AnalyzingAttended
  <2>2. CASE t = s
    BY <1>1, <2>2 DEF Attended
  <2>3. CASE t # s
    BY <1>1, <1>3, <2>1, <2>3 DEF Attended, HasWork, Runs
  <2> QED BY <2>2, <2>3
<1>9. ResultsHeardOf'
  BY <1>1 DEF IInv, ResultsHeardOf, Runs
<1> QED BY <1>1, <1>6, <1>7, <1>8, <1>9, StoreStays DEF IInv

LEMMA EndInv ==
  ASSUME AnalysisConstants, IInv, AnalysisEnd
  PROVE  IInv'
<1>1. /\ UNCHANGED store /\ UNCHANGED <<results, removing, work, missed, unstored>>
      /\ UNCHANGED <<row, events, calls, answered, shown, app, unread, listFailed>>
      /\ holder.at = "analyzing" /\ marker' = [marker EXCEPT ![holder.song] = 0]
      /\ died' = [died EXCEPT ![holder.song] = 0]
  BY DEF AnalysisEnd, store, clearRunning
<1>2. /\ marker \in [Songs -> Nat] /\ died \in [Songs -> Nat]
      /\ work \in [Songs -> {"none", "enqueued"}] /\ holder \in Holders
  BY DEF IInv, Types, RunTypes
<1>3. holder \in Analyses /\ holder.song \in Songs /\ holder # Idle
  BY <1>1, <1>2, HoldersAre
<1>4. /\ holder' \in Holders /\ holder'.at # "analyzing"
      /\ IF holder.stopped THEN holder' = Idle
         ELSE holder'.song = holder.song /\ holder'.stopped = FALSE
      /\ holder'.at = "saving" => holder'.result.error # "interrupted"
  <2>1. CASE holder.stopped
    BY <2>1 DEF AnalysisEnd, Holders, Idle
  <2>2. CASE ~holder.stopped
    <3>1. PICK result \in {ok(TRUE), ok(FALSE), failed("internal")} :
             holder' = [song |-> holder.song, stopped |-> FALSE, at |-> "saving",
                        result |-> result]
      BY <2>2 DEF AnalysisEnd
    <3>2. result \in ResultRecords /\ result.error # "interrupted"
      BY RecordsAre
    <3> QED BY <1>3, <2>2, <3>1, <3>2 DEF Holders, Results
  <2> QED BY <2>1, <2>2
<1>5. Types'
  <2>1. RunTypes'
    BY <1>1, <1>2, <1>3, <1>4 DEF RunTypes
  <2>2. FileTypes'
    BY <1>1 DEF IInv, Types, FileTypes
  <2> QED BY <1>1, <2>1, <2>2, StoreStays DEF Types
<1>6. MarkersCount'
  <2>0. died' \in [Songs -> Nat]
    BY <1>1, <1>2
  <2> SUFFICES ASSUME NEW t \in Songs PROVE marker'[t] <= died'[t]
    BY <1>4, <2>0 DEF MarkersCount
  <2>1. CASE t = holder.song
    BY <1>1, <1>2, <2>1
  <2>2. CASE t # holder.song
    BY <1>1, <1>2, <2>2 DEF IInv, MarkersCount, Runs
  <2> QED BY <2>1, <2>2
<1>7. BlamedFairly'
  BY <1>4 DEF BlamedFairly
<1>8. AnalyzingAttended'
  <2> SUFFICES ASSUME NEW t \in Songs, row[t].status = "analyzing" PROVE Attended(t)'
    BY <1>1, StoreStays DEF AnalyzingAttended, Analyzing
  <2>1. Attended(t)
    BY DEF IInv, AnalyzingAttended, Analyzing
  <2> QED BY <1>1, <1>4, <2>1 DEF Attended, HasWork, Runs
<1>9. ResultsHeardOf'
  BY <1>1 DEF IInv, ResultsHeardOf, Runs
<1> QED BY <1>1, <1>5, <1>6, <1>7, <1>8, <1>9, StoreStays DEF IInv

LEMMA SaveInv ==
  ASSUME AnalysisConstants, IInv, AnalysisSave
  PROVE  IInv'
<1>1. /\ UNCHANGED store /\ UNCHANGED <<work, marker, removing, died, missed>>
      /\ unstored' = unstored \ {holder.song}
      /\ UNCHANGED <<row, events, calls, answered, shown, app, unread, listFailed>>
      /\ holder.at = "saving" /\ holder' = [holder EXCEPT !.at = "emitting"]
      /\ results' = [results EXCEPT ![holder.song] = holder.result]
  BY DEF AnalysisSave, store
<1>2. holder \in Results /\ holder # Idle
  BY <1>1, HoldersAre DEF IInv, Types, RunTypes
<1>3. /\ holder' \in Results /\ holder'.at = "emitting"
      /\ holder'.song = holder.song /\ holder'.stopped = holder.stopped
  BY <1>1, <1>2 DEF Results
<1>4. Types'
  <2>1. RunTypes'
    BY <1>1, <1>3 DEF IInv, Types, RunTypes, Holders
  <2>2. FileTypes'
    BY <1>1, <1>2 DEF IInv, Types, FileTypes, Results
  <2> QED BY <1>1, <2>1, <2>2, StoreStays DEF Types
<1>5. MarkersCount'
  BY <1>1, <1>3 DEF IInv, MarkersCount, Runs
<1>6. BlamedFairly'
  BY <1>3 DEF BlamedFairly
<1>7. AnalyzingAttended'
  <2> SUFFICES ASSUME NEW t \in Songs, row[t].status = "analyzing" PROVE Attended(t)'
    BY <1>1, StoreStays DEF AnalyzingAttended, Analyzing
  <2>1. Attended(t)
    BY DEF IInv, AnalyzingAttended, Analyzing
  <2> QED BY <1>1, <1>3, <2>1 DEF Attended, HasWork, Runs
<1>8. ResultsHeardOf'
  <2> SUFFICES ASSUME NEW t \in Songs, results'[t] # NoFile, t # holder.song
               PROVE  \/ app \in {"dead", "reading"}
                      \/ t \in unstored'
                      \/ \E e \in ToSet(events) \union ToSet(unread) : e.song = t
                      \/ \E c \in ToSet(calls) \union {answered} :
                            c.kind \in {"apply", "pending"} /\ t \in c.songs
                      \/ t \in ToSet(removing)
    BY <1>1, <1>3 DEF ResultsHeardOf, Runs
  <2>1. results[t] # NoFile
    BY <1>1 DEF IInv, Types, FileTypes
  <2> QED BY <1>1, <2>1 DEF IInv, ResultsHeardOf, Runs
<1> QED BY <1>1, <1>4, <1>5, <1>6, <1>7, <1>8, StoreStays DEF IInv

\* A run that ends without a result is noted, unless it was stopped: its song has
\* then what stopped it.
LEMMA SaveFailsInv ==
  ASSUME AnalysisConstants, IInv, AnalysisSaveFails
  PROVE  IInv'
<1>1. /\ UNCHANGED store /\ UNCHANGED <<work, marker, results, removing, died, unstored>>
      /\ UNCHANGED <<row, events, calls, answered, shown, app, unread, listFailed>>
      /\ holder.at = "saving" /\ holder' = Idle
      /\ missed' = IF Analyzing(holder.song) /\ ~holder.stopped
                   THEN missed \cup {holder.song} ELSE missed
  BY DEF AnalysisSaveFails, store
<1>2. holder \in Results /\ holder.song \in Songs
  BY <1>1, HoldersAre DEF IInv, Types, RunTypes
<1>3. holder' \in Holders /\ holder'.at = "idle" /\ holder'.song \notin Songs
  BY <1>1 DEF Holders, Idle, AnalysisConstants
<1>4. Types'
  <2>1. RunTypes' /\ FileTypes'
    BY <1>1, <1>3 DEF IInv, Types, RunTypes, FileTypes
  <2> QED BY <2>1, StoreStays, <1>1 DEF Types
<1>5. MarkersCount' /\ BlamedFairly'
  BY <1>1, <1>3 DEF IInv, MarkersCount, BlamedFairly, Runs
<1>6. AnalyzingAttended'
  <2> SUFFICES ASSUME NEW t \in Songs, Analyzing(t) PROVE Attended(t)'
    BY <1>1, StoreStays DEF AnalyzingAttended, Analyzing
  <2>1. Attended(t)
    BY DEF IInv, AnalyzingAttended
  <2>2. CASE Runs(t) /\ ~holder.stopped
    BY <1>1, <2>2 DEF Attended, Runs
  <2>3. CASE ~(Runs(t) /\ ~holder.stopped)
    BY <1>1, <2>1, <2>3 DEF Attended, HasWork
  <2> QED BY <2>2, <2>3
<1>7. ResultsHeardOf'
  BY <1>1 DEF IInv, ResultsHeardOf, Runs
<1> QED BY <1>1, <1>4, <1>5, <1>6, <1>7, StoreStays DEF IInv

\* A result nobody is told of is noted the same way, and its file with it.
LEMMA EmitFailsInv ==
  ASSUME AnalysisConstants, IInv, AnalysisEmitFails
  PROVE  IInv'
<1>1. /\ UNCHANGED store /\ UNCHANGED <<work, marker, results, removing, died>>
      /\ UNCHANGED <<row, events, calls, answered, shown, app, unread, listFailed>>
      /\ holder.at = "emitting" /\ holder' = Idle
      /\ missed' = IF Analyzing(holder.song) /\ ~holder.stopped
                   THEN missed \cup {holder.song} ELSE missed
      /\ unstored' = IF results[holder.song] # NoFile
                     THEN unstored \cup {holder.song} ELSE unstored
  BY DEF AnalysisEmitFails, store
<1>2. holder \in Results /\ holder.song \in Songs
  BY <1>1, HoldersAre DEF IInv, Types, RunTypes
<1>3. holder' \in Holders /\ holder'.at = "idle" /\ holder'.song \notin Songs
  BY <1>1 DEF Holders, Idle, AnalysisConstants
<1>4. Types'
  <2>1. RunTypes' /\ FileTypes'
    BY <1>1, <1>2, <1>3 DEF IInv, Types, RunTypes, FileTypes
  <2> QED BY <2>1, StoreStays, <1>1 DEF Types
<1>5. MarkersCount' /\ BlamedFairly'
  BY <1>1, <1>3 DEF IInv, MarkersCount, BlamedFairly, Runs
<1>6. AnalyzingAttended'
  <2> SUFFICES ASSUME NEW t \in Songs, Analyzing(t) PROVE Attended(t)'
    BY <1>1, StoreStays DEF AnalyzingAttended, Analyzing
  <2>1. Attended(t)
    BY DEF IInv, AnalyzingAttended
  <2>2. CASE Runs(t) /\ ~holder.stopped
    BY <1>1, <2>2 DEF Attended, Runs
  <2>3. CASE ~(Runs(t) /\ ~holder.stopped)
    BY <1>1, <2>1, <2>3 DEF Attended, HasWork
  <2> QED BY <2>2, <2>3
<1>7. ResultsHeardOf'
  <2> SUFFICES ASSUME NEW t \in Songs, results[t] # NoFile, ~Runs(t)
               PROVE  \/ app \in {"dead", "reading"}
                      \/ \E e \in ToSet(events) \union ToSet(unread) : e.song = t
                      \/ \E c \in ToSet(calls) \union {answered} :
                            c.kind \in {"apply", "pending"} /\ t \in c.songs
                      \/ t \in ToSet(removing)
                      \/ t \in unstored
    BY <1>1 DEF ResultsHeardOf, Runs
  <2> QED BY DEF IInv, ResultsHeardOf
<1> QED BY <1>1, <1>4, <1>5, <1>6, <1>7, StoreStays DEF IInv

LEMMA RemoveInv ==
  ASSUME AnalysisConstants, IInv, RemoveResult
  PROVE  IInv'
<1>1. /\ UNCHANGED store /\ UNCHANGED <<work, marker, holder, died, missed>>
      /\ UNCHANGED <<row, events, calls, answered, shown, app, unread, listFailed>>
      /\ removing # <<>> /\ removing' = Tail(removing)
      /\ \/ /\ results' = [results EXCEPT ![Head(removing)] = NoFile]
            /\ unstored' = unstored \ {Head(removing)}
         \/ results' = results /\ unstored' = unstored \cup {Head(removing)}
  BY DEF RemoveResult, store
<1>2. /\ Head(removing) \in Songs /\ Tail(removing) \in Seq(Songs)
      /\ ToSet(removing) = {Head(removing)} \union ToSet(Tail(removing))
  BY <1>1, TailSet DEF IInv, Types, FileTypes
<1>3. Types'
  <2>1. RunTypes'
    BY <1>1 DEF IInv, Types, RunTypes
  <2>2. FileTypes'
    BY <1>1, <1>2, RecordsAre DEF IInv, Types, FileTypes
  <2> QED BY <1>1, <2>1, <2>2, StoreStays DEF Types
<1>4. MarkersCount' /\ BlamedFairly'
  BY <1>1 DEF IInv, MarkersCount, BlamedFairly, Runs
<1>5. AnalyzingAttended'
  BY <1>1, StoreStays DEF IInv, AnalyzingAttended, Analyzing, Attended, HasWork, Runs
<1>6. ResultsHeardOf'
  <2> SUFFICES ASSUME NEW t \in Songs, results'[t] # NoFile, t \notin unstored'
               PROVE  \/ app \in {"dead", "reading"}
                      \/ Runs(t) /\ holder.at = "emitting"
                      \/ \E e \in ToSet(events) \union ToSet(unread) : e.song = t
                      \/ \E c \in ToSet(calls) \union {answered} :
                            c.kind \in {"apply", "pending"} /\ t \in c.songs
                      \/ t \in ToSet(removing')
    BY <1>1 DEF ResultsHeardOf, Runs
  <2>1. results[t] # NoFile /\ t # Head(removing) /\ t \notin unstored
    BY <1>1, <1>2 DEF IInv, Types, FileTypes
  <2> QED BY <1>1, <1>2, <2>1 DEF IInv, ResultsHeardOf
<1> QED BY <1>1, <1>3, <1>4, <1>5, <1>6, StoreStays DEF IInv

LEMMA EmitInv ==
  ASSUME AnalysisConstants, IInv, AnalysisEmit
  PROVE  IInv'
<1>1. /\ UNCHANGED <<row, work, marker, results, removing, calls, answered, shown, app,
                     unread, listFailed, died, missed, unstored>>
      /\ holder.at = "emitting" /\ holder' = Idle
  BY DEF AnalysisEmit
<1>2. /\ holder \in Results /\ holder # Idle /\ holder.song \in Songs
      /\ holder'.song \notin Songs /\ holder'.at = "idle"
  BY <1>1, HoldersAre DEF IInv, Types, RunTypes, Holders
<1>3. events \in Seq(Messages)
  BY DEF IInv, Types, CallTypes
<1> DEFINE told == [song |-> holder.song, result |-> holder.result]
<1>4. told \in Messages /\ told.song = holder.song
  BY <1>2 DEF Results, Messages
<1> HIDE DEF told
<1>5. /\ events' \in Seq(Messages) /\ ToSet(events) \subseteq ToSet(events')
      /\ app # "dead" => told \in ToSet(events')
  <2>1. events' = IF app = "dead" THEN events ELSE Append(events, told)
    BY DEF AnalysisEmit, told
  <2> QED BY <1>3, <1>4, <2>1, AppendSet
<1>6. Types'
  <2>1. TableTypes' /\ CallTypes'
    BY <1>1, <1>5 DEF IInv, Types, TableTypes, CallTypes
  <2>2. RunTypes' /\ FileTypes'
    BY <1>1 DEF IInv, Types, RunTypes, FileTypes, Holders
  <2> QED BY <2>1, <2>2 DEF Types
<1>7. StartInOrder' /\ ImportsAreNew'
  BY <1>1 DEF IInv, StartInOrder, ImportsAreNew
<1>8. MarkersCount' /\ BlamedFairly'
  BY <1>1, <1>2 DEF IInv, MarkersCount, BlamedFairly, Runs
<1>9. ResultsHeardOf'
  <2> SUFFICES ASSUME NEW t \in Songs, results[t] # NoFile, app # "dead"
               PROVE  \/ app = "reading"
                      \/ t \in unstored
                      \/ \E e \in ToSet(events') \union ToSet(unread) : e.song = t
                      \/ \E c \in ToSet(calls) \union {answered} :
                            c.kind \in {"apply", "pending"} /\ t \in c.songs
                      \/ t \in ToSet(removing)
    BY <1>1 DEF ResultsHeardOf
  <2>1. CASE Runs(t)
    BY <1>4, <1>5, <2>1 DEF Runs
  <2>2. CASE ~Runs(t)
    BY <1>5, <2>2 DEF IInv, ResultsHeardOf
  <2> QED BY <2>1, <2>2
<1>10. AnalyzingAttended'
  <2> SUFFICES ASSUME NEW t \in Songs, row[t].status = "analyzing" PROVE Attended(t)'
    BY <1>1 DEF IInv, AnalyzingAttended, Analyzing
  <2>1. CASE Runs(t)
    <3>1. app = "dead" \/ \E e \in ToSet(events') : e.song = t
      BY <1>4, <1>5, <2>1 DEF Runs
    <3> QED BY <1>1, <3>1 DEF Attended, HasWork
  <2>2. CASE ~Runs(t)
    <3>1. Attended(t)
      BY DEF IInv, AnalyzingAttended, Analyzing
    <3> QED BY <1>1, <1>5, <2>2, <3>1 DEF Attended, HasWork
  <2> QED BY <2>1, <2>2
<1> QED BY <1>6, <1>7, <1>8, <1>9, <1>10 DEF IInv

-----------------------------------------------------------------------------
(* Steps of the store.                                                       *)

LEMMA RunsStay ==
  ASSUME IInv, UNCHANGED <<work, holder, marker, results, removing, died>>
  PROVE  RunTypes' /\ FileTypes' /\ MarkersCount' /\ BlamedFairly'
BY DEF IInv, Types, RunTypes, FileTypes, MarkersCount, BlamedFairly, Runs

LEMMA NativeStays ==
  ASSUME IInv, UNCHANGED native
  PROVE  RunTypes' /\ FileTypes' /\ MarkersCount' /\ BlamedFairly'
BY RunsStay DEF native

\* Calls that are made are after those that wait.
LEMMA ImportsStayNew ==
  ASSUME IInv, NEW c \in CallRecords, calls' = Append(calls, c), UNCHANGED row,
         c.kind = "insert" =>
           \A s \in c.songs : row[s] = NoRow /\ \A d \in ToSet(calls) : s \notin d.songs
  PROVE  ImportsAreNew'
<1>1. calls \in Seq(CallRecords)
  BY DEF IInv, Types, CallTypes
<1>2. /\ Len(calls) \in Nat /\ DOMAIN calls = 1 .. Len(calls)
      /\ DOMAIN calls' = 1 .. Len(calls) + 1
      /\ \A i \in 1 .. Len(calls) : calls'[i] = calls[i] /\ calls[i] \in ToSet(calls)
      /\ calls'[Len(calls) + 1] = c
  BY <1>1, AppendSet DEF ToSet
<1> SUFFICES ASSUME NEW i \in 1 .. Len(calls) + 1, NEW s \in calls'[i].songs,
                    calls'[i].kind = "insert"
             PROVE  /\ row[s] = NoRow
                    /\ \A j \in 1 .. Len(calls) + 1 :
                          calls'[j].kind = "insert" /\ s \in calls'[j].songs => j = i
  BY <1>2 DEF ImportsAreNew
<1>3. CASE i \in 1 .. Len(calls)
  <2>1. calls[i].kind = "insert" /\ s \in calls[i].songs /\ calls[i] \in ToSet(calls)
    BY <1>2, <1>3
  <2>2. /\ row[s] = NoRow
        /\ \A j \in 1 .. Len(calls) : calls[j].kind = "insert" /\ s \in calls[j].songs => j = i
    BY <1>2, <1>3, <2>1 DEF IInv, ImportsAreNew
  <2>3. ~(c.kind = "insert" /\ s \in c.songs)
    BY <2>1
  <2>4. \A j \in 1 .. Len(calls) + 1 : j \in 1 .. Len(calls) \/ j = Len(calls) + 1
    BY <1>2
  <2> QED BY <1>2, <2>2, <2>3, <2>4
<1>4. CASE i = Len(calls) + 1
  <2>1. c.kind = "insert" /\ s \in c.songs
    BY <1>2, <1>4
  <2>2. /\ row[s] = NoRow
        /\ \A j \in 1 .. Len(calls) : s \notin calls[j].songs
    BY <1>2, <2>1
  <2>3. \A j \in 1 .. Len(calls) + 1 : j \in 1 .. Len(calls) \/ j = Len(calls) + 1
    BY <1>2
  <2> QED BY <1>2, <1>4, <2>2, <2>3
<1> QED BY <1>2, <1>3, <1>4

\* A call that waits undoes nothing of what is attended to.
LEMMA Asked ==
  ASSUME IInv, NEW c \in CallRecords, calls' = Append(calls, c)
  PROVE  /\ calls' \in Seq(CallRecords) /\ calls' # <<>>
         /\ ToSet(calls') = ToSet(calls) \union {c}
BY AppendSet DEF IInv, Types, CallTypes

LEMMA ListenInv ==
  ASSUME AnalysisConstants, IInv, StartListening
  PROVE  IInv'
<1>1. /\ app = "dead" /\ app' = "reading" /\ UNCHANGED native
      /\ UNCHANGED <<row, events, calls, answered, shown, unread, holder, work, results, removing,
                     missed, unstored, listFailed>>
  BY DEF StartListening, native
<1>2. Types'
  BY <1>1, NativeStays DEF IInv, Types, TableTypes, CallTypes
<1>3. StartInOrder' /\ ImportsAreNew'
  BY <1>1 DEF IInv, StartInOrder, ImportsAreNew
<1>4. ResultsHeardOf' /\ AnalyzingAttended'
  BY <1>1 DEF IInv, ResultsHeardOf, AnalyzingAttended, Analyzing, Attended, HasWork
<1> QED BY <1>1, <1>2, <1>3, <1>4, NativeStays DEF IInv

LEMMA PendingReadInv ==
  ASSUME AnalysisConstants, IInv, PendingRead
  PROVE  IInv'
<1> DEFINE stored == {[song |-> s, result |-> results[s]] :
                        s \in {t \in Songs : results[t] # NoFile}}
<1>1. /\ app = "reading" /\ app' = "receiving" /\ UNCHANGED native
      /\ UNCHANGED <<row, events, calls, answered, shown, holder, work, results, removing,
                     missed, unstored, listFailed>>
      /\ unread' = SetToSeq(stored)
  BY DEF PendingRead, native
<1>2. stored \subseteq Messages /\ IsFiniteSet(stored)
  <2>1. stored \subseteq Messages
    BY DEF IInv, Types, FileTypes, Messages
  <2> DEFINE kept == {t \in Songs : results[t] # NoFile}
             f == [t \in kept |-> [song |-> t, result |-> results[t]]]
  <2>2. IsFiniteSet(kept)
    BY FS_Subset DEF AnalysisConstants
  <2>3. f \in Surjection(kept, stored)
    BY DEF Surjection
  <2> QED BY <2>1, <2>2, <2>3, FS_Surjection
<1>3. unread' \in Seq(Messages) /\ ToSet(unread') = stored
  <2> HIDE DEF stored
  <2>1. SetToSeq(stored) \in Seq(stored) /\ ToSet(SetToSeq(stored)) = stored
    BY <1>2, SetToSeqIs
  <2> QED BY <1>1, <1>2, <2>1, SeqMonotonic
<1>4. Types'
  BY <1>1, <1>3, NativeStays DEF IInv, Types, TableTypes, CallTypes
<1>5. StartInOrder' /\ ImportsAreNew'
  BY <1>1 DEF IInv, StartInOrder, ImportsAreNew
<1>6. ResultsHeardOf'
  <2> SUFFICES ASSUME NEW t \in Songs, results[t] # NoFile
               PROVE  \E e \in ToSet(unread') : e.song = t
    BY <1>1 DEF ResultsHeardOf
  <2>1. [song |-> t, result |-> results[t]] \in stored
    OBVIOUS
  <2> QED BY <1>3, <2>1
<1>7. AnalyzingAttended'
  BY <1>1 DEF IInv, AnalyzingAttended, Analyzing, Attended, HasWork
<1> QED BY <1>1, <1>4, <1>5, <1>6, <1>7, NativeStays DEF IInv

LEMMA PendingReceiveInv ==
  ASSUME AnalysisConstants, IInv, PendingReceive
  PROVE  IInv'
<1>1. /\ app = "receiving" /\ UNCHANGED native
      /\ UNCHANGED <<row, events, answered, shown, holder, work, results, removing,
                     missed, unstored, listFailed>>
  BY DEF PendingReceive, native
<1>2. CASE unread = <<>>
  <2> DEFINE c == Call("claim", {})
  <2>1. /\ calls' = Append(calls, c) /\ app' = "claiming" /\ unread' = unread
    BY <1>2 DEF PendingReceive
  <2>2. c \in CallRecords /\ c.kind = "claim"
    BY CallsAre DEF Kinds
  <2> HIDE DEF c
  <2>3. /\ calls' \in Seq(CallRecords) /\ calls' # <<>>
        /\ ToSet(calls') = ToSet(calls) \union {c}
    BY <2>1, <2>2, Asked
  <2>4. ImportsAreNew'
    BY <1>1, <2>1, <2>2, ImportsStayNew
  <2>5. Types'
    BY <1>1, <2>1, <2>3, NativeStays DEF IInv, Types, TableTypes, CallTypes
  <2>6. StartInOrder'
    BY <1>1, <1>2, <2>1, <2>3 DEF IInv, StartInOrder
  <2>7. ResultsHeardOf' /\ AnalyzingAttended'
    BY <1>1, <2>1, <2>2, <2>3 DEF IInv, ResultsHeardOf, AnalyzingAttended, Analyzing, Attended, HasWork, Runs
  <2> QED BY <1>1, <2>4, <2>5, <2>6, <2>7, NativeStays DEF IInv
<1>3. CASE unread # <<>>
  <2> DEFINE c == Apply("pending", Head(unread).song, Head(unread).result)
  <2>1. /\ calls' = Append(calls, c) /\ app' = app /\ unread' = Tail(unread)
    BY <1>3 DEF PendingReceive
  <2>2. /\ Head(unread) \in Messages /\ Tail(unread) \in Seq(Messages)
        /\ ToSet(unread) = {Head(unread)} \union ToSet(Tail(unread))
    BY <1>3, TailSet DEF IInv, Types, CallTypes
  <2>3. c \in CallRecords /\ c.kind = "pending" /\ c.songs = {Head(unread).song}
    BY <2>2, AppliesAre DEF Messages
  <2> HIDE DEF c
  <2>4. /\ calls' \in Seq(CallRecords) /\ calls' # <<>>
        /\ ToSet(calls') = ToSet(calls) \union {c}
    BY <2>1, <2>3, Asked
  <2>5. ImportsAreNew'
    BY <1>1, <2>1, <2>3, ImportsStayNew
  <2>6. Types'
    BY <1>1, <2>1, <2>2, <2>4, NativeStays DEF IInv, Types, TableTypes, CallTypes
  <2>7. StartInOrder'
    BY <1>1, <2>1, <2>3, <2>4 DEF IInv, StartInOrder
  <2>8. ResultsHeardOf' /\ AnalyzingAttended'
    BY <1>1, <2>1, <2>2, <2>3, <2>4 DEF IInv, ResultsHeardOf, AnalyzingAttended, Analyzing, Attended, HasWork, Runs
  <2> QED BY <1>1, <2>5, <2>6, <2>7, <2>8, NativeStays DEF IInv
<1> QED BY <1>2, <1>3

LEMMA ReceiveInv ==
  ASSUME AnalysisConstants, IInv, receiveAnalysis
  PROVE  IInv'
<1> DEFINE c == Apply("apply", Head(events).song, Head(events).result)
<1>1. /\ app # "dead" /\ events # <<>> /\ UNCHANGED native
      /\ calls' = Append(calls, c) /\ events' = Tail(events)
      /\ UNCHANGED <<row, answered, shown, app, unread, holder, work, results, removing,
                     missed, unstored, listFailed>>
  BY DEF receiveAnalysis, native
<1>2. /\ Head(events) \in Messages /\ Tail(events) \in Seq(Messages)
      /\ ToSet(events) = {Head(events)} \union ToSet(Tail(events))
  BY <1>1, TailSet DEF IInv, Types, CallTypes
<1>3. c \in CallRecords /\ c.kind = "apply" /\ c.songs = {Head(events).song}
  BY <1>2, AppliesAre DEF Messages
<1> HIDE DEF c
<1>4. /\ calls' \in Seq(CallRecords) /\ calls' # <<>>
      /\ ToSet(calls') = ToSet(calls) \union {c}
  BY <1>1, <1>3, Asked
<1>5. ImportsAreNew'
  BY <1>1, <1>3, ImportsStayNew
<1>6. Types'
  BY <1>1, <1>2, <1>4, NativeStays DEF IInv, Types, TableTypes, CallTypes
<1>7. StartInOrder'
  BY <1>1, <1>3, <1>4 DEF IInv, StartInOrder
<1>8. ResultsHeardOf'
  BY <1>1, <1>2, <1>3, <1>4 DEF IInv, ResultsHeardOf, Runs
<1>9. AnalyzingAttended'
  BY <1>1, <1>2, <1>3, <1>4 DEF IInv, AnalyzingAttended, Analyzing, Attended, HasWork, Runs
<1> QED BY <1>1, <1>5, <1>6, <1>7, <1>8, <1>9, NativeStays DEF IInv

LEMMA TappedInv ==
  ASSUME AnalysisConstants, IInv, NEW s \in Songs, NEW kind \in {"insert", "begin", "delete"},
         Tapped(kind, s), kind = "insert" => Fresh(s)
  PROVE  IInv'
<1> DEFINE c == Call(kind, {s})
<1>1. /\ UNCHANGED native /\ calls' = Append(calls, c) /\ app # "dead"
      /\ UNCHANGED <<row, events, answered, shown, app, unread, holder, work, results, removing,
                     missed, unstored, listFailed>>
  BY DEF Tapped, native
<1>2. c \in CallRecords /\ c.kind = kind /\ c.songs = {s}
  BY CallsAre DEF Kinds
<1> HIDE DEF c
<1>3. /\ calls' \in Seq(CallRecords) /\ calls' # <<>>
      /\ ToSet(calls') = ToSet(calls) \union {c}
  BY <1>1, <1>2, Asked
<1>4. ImportsAreNew'
  <2>1. kind = "insert" => row[s] = NoRow /\ \A d \in ToSet(calls) : s \notin d.songs
    <3>1. calls \in Seq(CallRecords)
      BY DEF IInv, Types, CallTypes
    <3>2. DOMAIN calls = 1 .. Len(calls)
      BY <3>1
    <3> QED BY <3>2 DEF Fresh, InLibrary, ToSet
  <2> QED BY <1>1, <1>2, <2>1, ImportsStayNew
<1>5. Types'
  BY <1>1, <1>3, NativeStays DEF IInv, Types, TableTypes, CallTypes
<1>6. StartInOrder'
  BY <1>1, <1>2, <1>3 DEF IInv, StartInOrder
<1>7. ResultsHeardOf' /\ AnalyzingAttended'
  BY <1>1, <1>3 DEF IInv, ResultsHeardOf, AnalyzingAttended, Analyzing, Attended, HasWork, Runs
<1> QED BY <1>1, <1>4, <1>5, <1>6, <1>7, NativeStays DEF IInv

\* What a call the transactor serves writes, of the songs it finds.
LEMMA WrittenIs ==
  ASSUME IInv, Serve, NEW c, c = Head(calls)
  PROVE  /\ c \in CallRecords
         /\ \E found \in SUBSET Songs :
              /\ found = CASE c.kind = "claim"  -> {s \in Songs : claims(row[s])}
                           [] c.kind = "insert" -> c.songs
                           [] OTHER -> {s \in c.songs : InLibrary(s)}
              /\ answered' = CASE c.kind = "list" -> NoCall
                               [] c.kind \in {"apply", "pending"} -> c
                               [] OTHER -> [c EXCEPT !.songs = found]
              /\ missed' = missed \ found
              /\ \A s \in Songs \ found : row'[s] = row[s]
              /\ \A s \in found :
                   /\ c.kind # "list"
                   /\ c.kind \in {"apply", "pending"} =>
                        row'[s] = analysisFields(row[s], c.result)
                   /\ c.kind = "claim" => row'[s] = [row[s] EXCEPT !.status = "analyzing"]
                   /\ c.kind = "insert" => row'[s] = insertSong
                   /\ c.kind = "begin" =>
                        row'[s] = [row[s] EXCEPT !.status = "analyzing", !.error = "none"]
                   /\ c.kind = "delete" => row'[s] = NoRow
         /\ row' = [s \in Songs |-> row'[s]]
<1>1. calls \in Seq(CallRecords) /\ calls # <<>>
  BY DEF IInv, Types, CallTypes, Serve
<1>2. /\ c \in CallRecords /\ c.songs \in SUBSET Songs /\ c.kind \in Kinds
      /\ c.kind = "list" => c.songs = {}
  BY <1>1, TailSet DEF CallRecords
<1> DEFINE found == CASE c.kind = "claim"  -> {s \in Songs : claims(row[s])}
                      [] c.kind = "insert" -> c.songs
                      [] OTHER -> {s \in c.songs : InLibrary(s)}
           written(r) == CASE c.kind \in {"apply", "pending"} -> applyAnalysis(r, c.result)
                           [] c.kind = "claim"  -> claimUnfinished(r)
                           [] c.kind = "insert" -> insertSong
                           [] c.kind = "begin"  -> beginAnalysis(r)
                           [] c.kind = "delete" -> deleteSong(r)
<1>3. /\ row' = [s \in Songs |-> IF s \in found THEN written(row[s]) ELSE row[s]]
      /\ answered' = CASE c.kind = "list" -> NoCall
                       [] c.kind \in {"apply", "pending"} -> c
                       [] OTHER -> [c EXCEPT !.songs = found]
      /\ missed' = missed \ found
  BY DEF Serve
<1>4. found \in SUBSET Songs
  BY <1>2
<1>5. c.kind = "list" => found = {}
  BY <1>2
<1>6. \A r : /\ c.kind \in {"apply", "pending"} => written(r) = analysisFields(r, c.result)
             /\ c.kind = "claim" => written(r) = [r EXCEPT !.status = "analyzing"]
             /\ c.kind = "insert" => written(r) = insertSong
             /\ c.kind = "begin" =>
                  written(r) = [r EXCEPT !.status = "analyzing", !.error = "none"]
             /\ c.kind = "delete" => written(r) = NoRow
  BY DEF applyAnalysis, claimUnfinished, beginAnalysis, deleteSong
<1> HIDE DEF written
<1>7. /\ \A s \in Songs \ found : row'[s] = row[s]
      /\ \A s \in found : row'[s] = written(row[s])
      /\ row' = [s \in Songs |-> row'[s]]
  BY <1>3, <1>4
<1>8. \A s \in found : c.kind # "list"
  BY <1>5
<1> QED
  <2> SUFFICES
        /\ \A s \in found :
             /\ c.kind # "list"
             /\ c.kind \in {"apply", "pending"} =>
                  row'[s] = analysisFields(row[s], c.result)
             /\ c.kind = "claim" => row'[s] = [row[s] EXCEPT !.status = "analyzing"]
             /\ c.kind = "insert" => row'[s] = insertSong
             /\ c.kind = "begin" =>
                  row'[s] = [row[s] EXCEPT !.status = "analyzing", !.error = "none"]
             /\ c.kind = "delete" => row'[s] = NoRow
    BY <1>2, <1>3, <1>4, <1>7
  <2> QED BY <1>6, <1>7, <1>8

LEMMA AnalyzedIs ==
  ASSUME NEW r \in RowRecords, NEW result \in ResultRecords
  PROVE  /\ analysisFields(r, result) \in RowRecords
         /\ analysisFields(r, result).status # "analyzing"
         /\ ~result.ok => analysisFields(r, result).grid = r.grid
         /\ [r EXCEPT !.status = "analyzing"] \in RowRecords
         /\ [r EXCEPT !.status = "analyzing"].grid = r.grid
         /\ [r EXCEPT !.status = "analyzing", !.error = "none"] \in RowRecords
         /\ [r EXCEPT !.status = "analyzing", !.error = "none"].grid = r.grid
BY DEF analysisFields, RowRecords, ResultRecords, Errors

LEMMA ServeInv ==
  ASSUME AnalysisConstants, IInv, Serve
  PROVE  IInv' /\ GridKept
<1> DEFINE c == Head(calls)
<1>1. /\ calls # <<>> /\ answered = NoCall /\ calls' = Tail(calls)
      /\ listFailed' = (listFailed /\ c.kind # "list")
      /\ shown' = (IF c.kind = "list" THEN row ELSE shown)
      /\ UNCHANGED <<events, app, unread, work, holder, marker, results, removing, died,
                     unstored>>
  BY DEF Serve
<1>2. /\ c \in CallRecords /\ Tail(calls) \in Seq(CallRecords) /\ c = calls[1]
      /\ ToSet(calls) = {c} \union ToSet(Tail(calls))
      /\ Len(calls) \in Nat \ {0} /\ DOMAIN calls = 1 .. Len(calls)
      /\ DOMAIN calls' = 1 .. Len(calls) - 1
      /\ \A i \in 1 .. Len(calls) - 1 : calls'[i] = calls[i + 1]
  BY <1>1, TailSet DEF IInv, Types, CallTypes
<1>3. PICK found \in SUBSET Songs :
              /\ found = CASE c.kind = "claim"  -> {s \in Songs : claims(row[s])}
                           [] c.kind = "insert" -> c.songs
                           [] OTHER -> {s \in c.songs : InLibrary(s)}
              /\ answered' = CASE c.kind = "list" -> NoCall
                               [] c.kind \in {"apply", "pending"} -> c
                               [] OTHER -> [c EXCEPT !.songs = found]
              /\ missed' = missed \ found
              /\ \A s \in Songs \ found : row'[s] = row[s]
              /\ \A s \in found :
                   /\ c.kind # "list"
                   /\ c.kind \in {"apply", "pending"} =>
                        row'[s] = analysisFields(row[s], c.result)
                   /\ c.kind = "claim" => row'[s] = [row[s] EXCEPT !.status = "analyzing"]
                   /\ c.kind = "insert" => row'[s] = insertSong
                   /\ c.kind = "begin" =>
                        row'[s] = [row[s] EXCEPT !.status = "analyzing", !.error = "none"]
                   /\ c.kind = "delete" => row'[s] = NoRow
  BY WrittenIs
<1>4. row' = [s \in Songs |-> row'[s]]
  BY WrittenIs
<1> HIDE DEF c
<1>5. /\ c.kind \in Kinds /\ c.songs \in SUBSET Songs /\ c.result \in ResultRecords
      /\ c.kind = "list" => c.songs = {}
  BY <1>2 DEF CallRecords
<1>6. row \in [Songs -> RowRecords] /\ shown \in [Songs -> RowRecords]
  BY DEF IInv, Types, TableTypes
<1>7. /\ answered' \in CallRecords \union {NoCall} /\ answered'.kind # "list"
      /\ c.kind = "list" => answered' = NoCall
      /\ c.kind # "list" => answered' \in CallRecords /\ answered'.kind = c.kind
      /\ c.kind \in {"apply", "pending"} => answered' = c
      /\ c.kind \in {"claim", "insert", "begin", "delete"} => answered'.songs = found
  <2>1. CASE c.kind = "list"
    BY <1>3, <2>1, NoCallIs
  <2>2. CASE c.kind \in {"apply", "pending"}
    BY <1>2, <1>3, <2>2
  <2>3. CASE c.kind \in {"claim", "insert", "begin", "delete"}
    <3>1. answered' = [c EXCEPT !.songs = found]
      BY <1>3, <2>3
    <3> QED BY <1>2, <2>3, <3>1 DEF CallRecords
  <2> QED BY <1>5, <2>1, <2>2, <2>3 DEF Kinds
<1>8. \A s \in Songs : row'[s] \in RowRecords
  <2> TAKE s \in Songs
  <2>1. row[s] \in RowRecords
    BY <1>6
  <2>2. /\ analysisFields(row[s], c.result) \in RowRecords
        /\ [row[s] EXCEPT !.status = "analyzing"] \in RowRecords
        /\ [row[s] EXCEPT !.status = "analyzing", !.error = "none"] \in RowRecords
    BY <1>5, <2>1, AnalyzedIs
  <2>3. CASE s \notin found
    BY <1>3, <2>1, <2>3
  <2>4. CASE s \in found
    BY <1>3, <1>5, <2>2, <2>4, RecordsAre, Zenon DEF Kinds
  <2> QED BY <2>3, <2>4
<1>9. row' \in [Songs -> RowRecords] /\ shown' \in [Songs -> RowRecords]
  BY <1>1, <1>4, <1>6, <1>8
<1>10. Types'
  BY <1>1, <1>2, <1>7, <1>9, RunsStay DEF IInv, Types, TableTypes, CallTypes
<1>11. c.kind = "list" => row' = row
  <2> SUFFICES ASSUME c.kind = "list" PROVE row' = row
    OBVIOUS
  <2>1. \A s \in Songs : row'[s] = row[s]
    BY <1>3
  <2> QED BY <1>6, <1>9, <2>1
<1>12. StartInOrder'
  <2>1. (unread # <<>> => app = "receiving")'
    BY <1>1 DEF IInv, StartInOrder
  <2>2. (\A d \in ToSet(calls) \union {answered} :
            d.kind = "claim" => app \in {"claiming", "unclaimed", "started"})'
    <3>1. \A d \in ToSet(calls) :
             d.kind = "claim" => app \in {"claiming", "unclaimed", "started"}
      BY DEF IInv, StartInOrder
    <3>2. ToSet(calls') \subseteq ToSet(calls) /\ c \in ToSet(calls)
      BY <1>1, <1>2
    <3>3. answered'.kind = "claim" => c.kind = "claim"
      BY <1>7, NoCallIs
    <3> QED BY <1>1, <3>1, <3>2, <3>3
  <2>3. (app = "started" => \/ listFailed \/ shown = row \/ answered # NoCall
                            \/ \E d \in ToSet(calls) : d.kind = "list")'
    <3>1. c.kind = "list" => shown' = row'
      BY <1>1, <1>11
    <3>2. c.kind # "list" => answered' # NoCall
      BY <1>7, NoCallIs
    <3> QED BY <3>1, <3>2
  <2> QED BY <2>1, <2>2, <2>3 DEF StartInOrder
<1>13. ResultsHeardOf'
  BY <1>1, <1>2, <1>7, NoCallIs DEF IInv, ResultsHeardOf, Runs
<1>14. ASSUME NEW s \in Songs, row'[s].status = "analyzing" PROVE Attended(s)'
  <2>1. CASE s \in found
    <3>1. c.kind \in {"claim", "insert", "begin"}
      <4>1. row[s] \in RowRecords
        BY <1>6
      <4>2. analysisFields(row[s], c.result).status # "analyzing" /\ NoRow.status # "analyzing"
        BY <1>5, <4>1, AnalyzedIs, RecordsAre
      <4> QED BY <1>3, <1>5, <1>14, <2>1, <4>2, Zenon DEF Kinds
    <3> QED BY <1>7, <2>1, <3>1 DEF Attended, HasWork
  <2>2. CASE s \notin found
    <3>1. row[s].status = "analyzing" /\ Attended(s)
      BY <1>3, <1>14, <2>2 DEF IInv, AnalyzingAttended, Analyzing
    <3>2. c.kind # "claim"
      BY <1>3, <2>2, <3>1 DEF claims
    <3>3. InLibrary(s)
      BY <3>1, RecordsAre DEF InLibrary
    <3>4. ~(c.kind = "apply" /\ s \in c.songs)
      BY <1>3, <2>2, <3>3
    <3>5. s \in missed => s \in missed'
      BY <1>3, <2>2
    <3>6. HasWork(s) => HasWork(s)'
      BY <1>1 DEF HasWork, Runs
    <3> QED BY <1>1, <1>2, <3>1, <3>2, <3>4, <3>5, <3>6, NoCallIs DEF Attended
  <2> QED BY <2>1, <2>2
<1>15. AnalyzingAttended'
  BY <1>3, <1>7, <1>14, NoCallIs DEF AnalyzingAttended, Analyzing
<1>16. ImportsAreNew'
  <2> SUFFICES ASSUME NEW i \in 1 .. Len(calls) - 1, NEW s \in calls'[i].songs,
                      calls'[i].kind = "insert"
               PROVE  /\ row'[s] = NoRow
                      /\ \A j \in 1 .. Len(calls) - 1 :
                           calls'[j].kind = "insert" /\ s \in calls'[j].songs => j = i
    BY <1>2 DEF ImportsAreNew
  <2>1. /\ i + 1 \in 1 .. Len(calls) /\ calls'[i] = calls[i + 1]
        /\ 1 \in 1 .. Len(calls) /\ i + 1 # 1
    BY <1>2
  <2>2. /\ row[s] = NoRow
        /\ \A j \in 1 .. Len(calls) : calls[j].kind = "insert" /\ s \in calls[j].songs => j = i + 1
    BY <1>2, <2>1 DEF IInv, ImportsAreNew
  <2>3. s \in Songs /\ ~(c.kind = "insert" /\ s \in c.songs)
    <3>1. calls[i + 1] \in CallRecords
      BY <1>2, <2>1, ElementOfSeq DEF IInv, Types, CallTypes
    <3> QED BY <1>2, <2>1, <2>2, <3>1 DEF CallRecords
  <2>4. s \notin found
    BY <1>3, <2>2, <2>3, RecordsAre DEF InLibrary, claims
  <2>5. \A j \in 1 .. Len(calls) - 1 : j + 1 \in 1 .. Len(calls) /\ calls'[j] = calls[j + 1]
    BY <1>2
  <2>6. \A j \in 1 .. Len(calls) - 1 :
           calls'[j].kind = "insert" /\ s \in calls'[j].songs => j + 1 = i + 1
    BY <2>2, <2>5
  <2>7. row'[s] = NoRow
    BY <1>3, <2>2, <2>3, <2>4
  <2>8. \A j \in 1 .. Len(calls) - 1 : j + 1 = i + 1 => j = i
    OBVIOUS
  <2> QED BY <2>6, <2>7, <2>8
<1>17. GridKept
  <2> SUFFICES ASSUME NEW s \in Songs, row[s].grid, ~row'[s].grid
               PROVE  ~InLibrary(s)' \/ (c.kind \in {"apply", "pending"} /\ c.result.ok)
    BY DEF GridKept, c
  <2>1. s \in found /\ row[s] # NoRow
    BY <1>3, RecordsAre
  <2>2. CASE c.kind \in {"apply", "pending"}
    <3>1. row'[s] = analysisFields(row[s], c.result)
      BY <1>3, <2>1, <2>2
    <3>2. row[s] \in RowRecords /\ row[s].grid = TRUE /\ c.result.ok \in BOOLEAN
      BY <1>5, <1>6 DEF RowRecords, ResultRecords
    <3>3. ~c.result.ok => analysisFields(row[s], c.result).grid = row[s].grid
      BY <1>5, <3>2, AnalyzedIs
    <3> QED BY <2>2, <3>1, <3>2, <3>3
  <2>3. CASE c.kind = "claim" \/ c.kind = "begin"
    <3>1. \/ row'[s] = [row[s] EXCEPT !.status = "analyzing"]
          \/ row'[s] = [row[s] EXCEPT !.status = "analyzing", !.error = "none"]
      BY <1>3, <2>1, <2>3
    <3>2. row[s] \in RowRecords
      BY <1>6
    <3>3. row'[s].grid = row[s].grid
      BY <3>1, <3>2 DEF RowRecords
    <3> QED BY <3>3
  <2>4. CASE c.kind = "insert"
    <3>1. 1 \in DOMAIN calls /\ calls[1].kind = "insert" /\ s \in calls[1].songs
      BY <1>2, <1>3, <2>1, <2>4
    <3> QED BY <2>1, <3>1 DEF IInv, ImportsAreNew
  <2>5. CASE c.kind = "delete"
    BY <1>3, <2>1, <2>5 DEF InLibrary
  <2> QED BY <1>3, <1>5, <2>1, <2>2, <2>3, <2>4, <2>5 DEF Kinds
<1> QED BY <1>1, <1>10, <1>12, <1>13, <1>15, <1>16, <1>17, RunsStay DEF IInv

\* A call that fails leaves the table as it is: what it was to store or to claim is
\* noted, and nothing else that attends to a song is lost with it.
LEMMA ServeFailsInv ==
  ASSUME AnalysisConstants, IInv, ServeFails
  PROVE  IInv'
<1> DEFINE c == Head(calls)
           lost == CASE c.kind \in {"apply", "pending"} -> c.songs
                     [] c.kind = "claim" -> Songs
                     [] OTHER -> {}
           list == Call("list", {})
<1>1. /\ calls # <<>> /\ answered = NoCall /\ answered' = NoCall
      /\ UNCHANGED <<row, work, holder, marker, results, removing, events, answered,
                     shown, unread, died>>
      /\ calls' = IF c.kind \in {"apply", "pending", "insert"}
                  THEN Append(Tail(calls), list) ELSE Tail(calls)
      /\ listFailed' = (listFailed \/ c.kind = "list")
      /\ app' = IF c.kind = "claim" THEN "unclaimed" ELSE app
      /\ missed' = missed \cup {s \in lost : Analyzing(s) /\ ~HasWork(s)}
      /\ unstored' = unstored \cup {s \in lost : c.kind # "claim" /\ results[s] # NoFile}
  BY DEF ServeFails, refreshed
<1>2. /\ c \in CallRecords /\ Tail(calls) \in Seq(CallRecords) /\ c = calls[1]
      /\ ToSet(calls) = {c} \union ToSet(Tail(calls))
      /\ Len(calls) \in Nat \ {0} /\ DOMAIN calls = 1 .. Len(calls)
      /\ DOMAIN Tail(calls) = 1 .. Len(calls) - 1
      /\ \A i \in 1 .. Len(calls) - 1 : Tail(calls)[i] = calls[i + 1]
  BY <1>1, TailSet DEF IInv, Types, CallTypes
<1>3. list \in CallRecords /\ list.kind = "list" /\ list.songs = {}
  BY CallsAre DEF Kinds
<1>4. c.kind \in Kinds /\ c.songs \in SUBSET Songs
  BY <1>2 DEF CallRecords
<1>5. /\ c.kind \in {"apply", "pending"} => lost = c.songs
      /\ c.kind = "claim" => lost = Songs
  OBVIOUS
<1> HIDE DEF c, lost, list
<1>6. /\ calls' \in Seq(CallRecords)
      /\ \A d \in ToSet(calls) : d = c \/ d \in ToSet(calls')
      /\ \A d \in ToSet(calls') : d \in ToSet(calls) \/ d.kind = "list"
  <2> DEFINE rest == Tail(calls)
  <2>1. rest \in Seq(CallRecords) /\ ToSet(calls) = {c} \union ToSet(rest)
    BY <1>2
  <2>2. calls' = rest \/ calls' = Append(rest, list)
    BY <1>1
  <2> HIDE DEF rest
  <2>3. Append(rest, list) \in Seq(CallRecords)
        /\ ToSet(Append(rest, list)) = ToSet(rest) \union {list}
    BY <1>3, <2>1, AppendSet
  <2> QED BY <1>3, <2>1, <2>2, <2>3
<1>7. Types'
  <2>1. TableTypes'
    <3>1. listFailed' \in BOOLEAN
      BY <1>1 DEF IInv, Types, TableTypes
    <3>2. app' \in {"dead", "reading", "receiving", "claiming", "unclaimed", "started"}
      BY <1>1 DEF IInv, Types, TableTypes
    <3> QED BY <1>1, <3>1, <3>2 DEF IInv, Types, TableTypes
  <2>2. CallTypes'
    BY <1>1, <1>6 DEF IInv, Types, CallTypes
  <2> QED BY <1>1, <2>1, <2>2, RunsStay DEF Types
<1>8. c.kind = "claim" => app \in {"claiming", "unclaimed", "started"} /\ unread = <<>>
  BY <1>2 DEF IInv, StartInOrder
<1>9. StartInOrder'
  <2>1. (unread # <<>> => app = "receiving")'
    BY <1>1, <1>8 DEF IInv, StartInOrder
  <2>2. (\A d \in ToSet(calls) \union {answered} :
            d.kind = "claim" => app \in {"claiming", "unclaimed", "started"})'
    <3>1. \A d \in ToSet(calls) :
             d.kind = "claim" => app \in {"claiming", "unclaimed", "started"}
      BY DEF IInv, StartInOrder
    <3> QED BY <1>1, <1>6, <3>1, NoCallIs
  <2>3. (app = "started" => \/ listFailed \/ shown = row \/ answered # NoCall
                            \/ \E d \in ToSet(calls) : d.kind = "list")'
    <3> SUFFICES ASSUME app' = "started", ~listFailed', shown # row
                 PROVE  \E d \in ToSet(calls') : d.kind = "list"
      BY <1>1
    <3>1. app = "started" /\ ~listFailed /\ c.kind # "list"
      BY <1>1
    <3>2. PICK d \in ToSet(calls) : d.kind = "list"
      BY <1>1, <3>1 DEF IInv, StartInOrder
    <3> QED BY <1>6, <3>1, <3>2
  <2> QED BY <2>1, <2>2, <2>3 DEF StartInOrder
<1>10. ResultsHeardOf'
  <2> SUFFICES ASSUME NEW s \in Songs, results[s] # NoFile, s \notin unstored',
                      app' \notin {"dead", "reading"}
               PROVE  \/ Runs(s) /\ holder.at = "emitting"
                      \/ \E e \in ToSet(events) \union ToSet(unread) : e.song = s
                      \/ \E d \in ToSet(calls') : d.kind \in {"apply", "pending"} /\ s \in d.songs
                      \/ s \in ToSet(removing)
    BY <1>1 DEF ResultsHeardOf, Runs
  <2>1. s \notin unstored /\ ~(c.kind \in {"apply", "pending"} /\ s \in c.songs)
    BY <1>1, <1>5
  <2>2. app \notin {"dead", "reading"}
    BY <1>1, <1>8
  <2> QED BY <1>1, <1>6, <2>1, <2>2, NoCallIs DEF IInv, ResultsHeardOf
<1>11. AnalyzingAttended'
  <2> SUFFICES ASSUME NEW s \in Songs, Analyzing(s) PROVE Attended(s)'
    BY <1>1, NoCallIs DEF AnalyzingAttended, Analyzing
  <2>1. Attended(s)
    BY DEF IInv, AnalyzingAttended
  <2>2. CASE HasWork(s)
    BY <1>1, <2>2 DEF Attended, HasWork, Runs
  <2>3. CASE s \in lost /\ ~HasWork(s)
    BY <1>1, <2>3 DEF Attended
  <2>4. CASE s \notin lost /\ ~HasWork(s)
    <3>1. c.kind # "claim" /\ ~(c.kind = "apply" /\ s \in c.songs)
      BY <1>5, <2>4
    <3>2. app' = app /\ missed \subseteq missed'
      BY <1>1, <3>1
    <3> QED BY <1>1, <1>6, <2>1, <2>4, <3>1, <3>2, NoCallIs DEF Attended
  <2> QED BY <2>2, <2>3, <2>4
<1>12. ImportsAreNew'
  <2> DEFINE n == Len(calls)
             rest == Tail(calls)
  <2>1. n \in Nat \ {0} /\ rest \in Seq(CallRecords) /\ DOMAIN rest = 1 .. n - 1
        /\ DOMAIN calls = 1 .. n /\ \A i \in 1 .. n - 1 : rest[i] = calls[i + 1]
    BY <1>2
  <2>2. calls' = rest \/ calls' = Append(rest, list)
    BY <1>1
  <2>3. Len(rest) = n - 1
    <3>1. calls \in Seq(CallRecords)
      BY DEF IInv, Types, CallTypes
    <3> QED BY <1>1, <3>1
  <2> HIDE DEF rest
  <2>4. \A i \in DOMAIN calls' : calls'[i].kind = "insert" =>
           i \in 1 .. n - 1 /\ calls'[i] = calls[i + 1]
    <3> SUFFICES ASSUME NEW i \in DOMAIN calls', calls'[i].kind = "insert"
                 PROVE  i \in 1 .. n - 1 /\ calls'[i] = calls[i + 1]
      OBVIOUS
    <3>1. CASE calls' = rest
      BY <2>1, <3>1
    <3>2. CASE calls' = Append(rest, list)
      <4>0. /\ DOMAIN Append(rest, list) = 1 .. Len(rest) + 1
            /\ \A k \in 1 .. Len(rest) : Append(rest, list)[k] = rest[k]
            /\ Append(rest, list)[Len(rest) + 1] = list
        BY <1>3, <2>1, AppendSet
      <4>1. /\ DOMAIN Append(rest, list) = 1 .. n
            /\ \A k \in 1 .. n - 1 : Append(rest, list)[k] = rest[k]
            /\ Append(rest, list)[n] = list
        <5> HIDE DEF n
        <5> QED BY <2>1, <2>3, <4>0
      <4>2. i # n
        BY <1>3, <3>2, <4>1
      <4>3. i \in 1 .. n - 1
        <5> HIDE DEF n
        <5> QED BY <2>1, <3>2, <4>1, <4>2
      <4> QED BY <2>1, <3>2, <4>1, <4>3
    <3> QED BY <2>2, <3>1, <3>2
  <2> HIDE DEF n
  <2> SUFFICES ASSUME NEW i \in DOMAIN calls', NEW s \in calls'[i].songs,
                      calls'[i].kind = "insert"
               PROVE  /\ row[s] = NoRow
                      /\ \A j \in DOMAIN calls' :
                           calls'[j].kind = "insert" /\ s \in calls'[j].songs => j = i
    BY <1>1 DEF ImportsAreNew
  <2>5. i \in 1 .. n - 1 /\ i + 1 \in 1 .. n /\ calls'[i] = calls[i + 1]
    BY <2>1, <2>4
  <2>6. /\ row[s] = NoRow
        /\ \A j \in 1 .. n : calls[j].kind = "insert" /\ s \in calls[j].songs => j = i + 1
    BY <2>1, <2>5 DEF IInv, ImportsAreNew
  <2>7. ASSUME NEW j \in DOMAIN calls', calls'[j].kind = "insert", s \in calls'[j].songs
        PROVE  j = i
    <3>1. j \in 1 .. n - 1 /\ j + 1 \in 1 .. n /\ calls'[j] = calls[j + 1]
      BY <2>1, <2>4, <2>7
    <3>2. j + 1 = i + 1
      BY <2>6, <2>7, <3>1
    <3> QED BY <2>5, <3>1, <3>2
  <2> QED BY <2>6, <2>7
<1> QED BY <1>1, <1>7, <1>9, <1>10, <1>11, <1>12, RunsStay DEF IInv

\* The caller goes on with what it was answered, and asks for the list again.
LEMMA GoesOnIs ==
  ASSUME IInv, NEW kinds, GoesOn(kinds), calls' = refreshed(calls)
  PROVE  /\ UNCHANGED <<row, results, marker, events, shown, unread, listFailed, died,
                     missed, unstored>>
         /\ answered' = NoCall /\ answered.kind \in kinds
         /\ calls' \in Seq(CallRecords) /\ calls' # <<>>
         /\ ToSet(calls) \subseteq ToSet(calls')
         /\ \A c \in ToSet(calls') : c \in ToSet(calls) \/ c.kind = "list"
         /\ ImportsAreNew'
<1> DEFINE c == Call("list", {})
<1>1. c \in CallRecords /\ c.kind = "list"
  BY CallsAre DEF Kinds
<1>2. calls' = Append(calls, c)
  BY DEF refreshed
<1> HIDE DEF c
<1>3. /\ calls' \in Seq(CallRecords) /\ calls' # <<>>
      /\ ToSet(calls') = ToSet(calls) \union {c}
  BY <1>1, <1>2, Asked
<1>4. /\ UNCHANGED <<row, results, marker, events, shown, unread, listFailed, died,
                     missed, unstored>>
      /\ answered' = NoCall /\ answered.kind \in kinds
  BY DEF GoesOn
<1>5. ImportsAreNew'
  BY <1>1, <1>2, <1>4, ImportsStayNew
<1> QED BY <1>1, <1>3, <1>4, <1>5

LEMMA ContinueTypes ==
  ASSUME IInv, NEW kinds, GoesOn(kinds), calls' = refreshed(calls),
         app' \in {app, "started"}, unread = <<>> \/ app' = app,
         holder' \in Holders, work' \in [Songs -> {"none", "enqueued"}],
         removing' \in Seq(Songs)
  PROVE  Types' /\ StartInOrder'
<1>1. TableTypes'
  BY GoesOnIs DEF IInv, Types, TableTypes
<1>2. CallTypes'
  BY GoesOnIs, NoCallIs DEF IInv, Types, CallTypes
<1>3. RunTypes' /\ FileTypes'
  BY GoesOnIs DEF IInv, Types, RunTypes, FileTypes
<1>4. StartInOrder'
  <2>1. (unread # <<>> => app = "receiving")'
    BY GoesOnIs DEF IInv, StartInOrder
  <2>2. (\A d \in ToSet(calls) \union {answered} :
            d.kind = "claim" => app \in {"claiming", "unclaimed", "started"})'
    <3>1. \A d \in ToSet(calls) :
             d.kind = "claim" => app \in {"claiming", "unclaimed", "started"}
      BY DEF IInv, StartInOrder
    <3>2. /\ answered' = NoCall
          /\ \A d \in ToSet(calls') : d \in ToSet(calls) \/ d.kind = "list"
      BY GoesOnIs
    <3> QED BY <3>1, <3>2, NoCallIs
  <2>3. \E d \in ToSet(calls') : d.kind = "list"
    <3>1. /\ Call("list", {}) \in CallRecords /\ Call("list", {}).kind = "list"
          /\ calls' = Append(calls, Call("list", {}))
      BY CallsAre DEF Kinds, refreshed
    <3> QED BY <3>1, Asked
  <2> QED BY <2>1, <2>2, <2>3 DEF StartInOrder
<1> QED BY <1>1, <1>2, <1>3, <1>4 DEF Types

LEMMA AnsweredSongs ==
  ASSUME IInv
  PROVE  answered.songs \in SUBSET Songs
BY NoCallIs DEF IInv, Types, CallTypes

LEMMA AcknowledgeInv ==
  ASSUME AnalysisConstants, IInv, Acknowledge
  PROVE  IInv'
<1>1. /\ GoesOn({"apply", "pending"}) /\ calls' = refreshed(calls)
      /\ UNCHANGED <<work, holder, app>>
      /\ removing' = removing \o SetToSeq(answered.songs)
  BY DEF Acknowledge
<1>2. /\ UNCHANGED <<row, results, marker, events, shown, unread, listFailed, died,
                     missed, unstored>>
      /\ answered' = NoCall /\ answered.kind \in {"apply", "pending"}
      /\ ToSet(calls) \subseteq ToSet(calls') /\ ImportsAreNew'
  BY <1>1, GoesOnIs
<1>3. /\ removing' \in Seq(Songs)
      /\ ToSet(removing') = ToSet(removing) \union answered.songs
  <2>1. answered.songs \in SUBSET Songs /\ IsFiniteSet(answered.songs)
    BY AnsweredSongs, FS_Subset DEF AnalysisConstants
  <2>2. /\ SetToSeq(answered.songs) \in Seq(Songs)
        /\ ToSet(SetToSeq(answered.songs)) = answered.songs
    BY <2>1, SetToSeqIs, SeqMonotonic
  <2> QED BY <1>1, <2>2, ConcatSet DEF IInv, Types, FileTypes
<1>4. Types' /\ StartInOrder'
  BY <1>1, <1>3, ContinueTypes DEF IInv, Types, RunTypes
<1>5. MarkersCount' /\ BlamedFairly'
  BY <1>1, <1>2 DEF IInv, MarkersCount, BlamedFairly, Runs
<1>6. ResultsHeardOf'
  BY <1>1, <1>2, <1>3 DEF IInv, ResultsHeardOf, Runs
<1>7. AnalyzingAttended'
  BY <1>1, <1>2, NoCallIs DEF IInv, AnalyzingAttended, Analyzing, Attended, HasWork, Runs
<1> QED BY <1>2, <1>4, <1>5, <1>6, <1>7 DEF IInv

LEMMA ClaimedInv ==
  ASSUME AnalysisConstants, IInv, AnalyzeClaimed
  PROVE  IInv'
<1>1. /\ GoesOn({"claim"}) /\ calls' = refreshed(calls) /\ app' = "started"
      /\ UNCHANGED <<holder, removing>> /\ work' = Keep(work, holder, answered.songs)
  BY DEF AnalyzeClaimed
<1>2. /\ UNCHANGED <<row, results, marker, events, shown, unread, listFailed, died,
                     missed, unstored>>
      /\ answered' = NoCall /\ answered.kind = "claim"
      /\ ToSet(calls) \subseteq ToSet(calls') /\ ImportsAreNew'
  BY <1>1, GoesOnIs
<1>3. app \in {"claiming", "unclaimed", "started"} /\ unread = <<>>
  BY <1>2 DEF IInv, StartInOrder
<1>4. /\ work' \in [Songs -> {"none", "enqueued"}]
      /\ \A s \in Songs : work[s] = "enqueued" => work'[s] = "enqueued"
      /\ \A s \in answered.songs : work'[s] = "enqueued" \/ (Runs(s) /\ ~holder.stopped)
  BY <1>1, AnsweredSongs, KeepIs DEF IInv, Types
<1>5. Types' /\ StartInOrder'
  BY <1>1, <1>3, <1>4, ContinueTypes DEF IInv, Types, RunTypes, FileTypes
<1>6. MarkersCount' /\ BlamedFairly'
  BY <1>1, <1>2 DEF IInv, MarkersCount, BlamedFairly, Runs
<1>7. ResultsHeardOf'
  BY <1>1, <1>2, <1>3 DEF IInv, ResultsHeardOf, Runs
<1>8. AnalyzingAttended'
  BY <1>1, <1>2, <1>3, <1>4, NoCallIs DEF IInv, AnalyzingAttended, Analyzing, Attended, HasWork, Runs
<1> QED BY <1>2, <1>5, <1>6, <1>7, <1>8 DEF IInv

LEMMA ImportedInv ==
  ASSUME AnalysisConstants, IInv, EnqueueImported
  PROVE  IInv'
<1>1. /\ GoesOn({"insert"}) /\ calls' = refreshed(calls)
      /\ UNCHANGED <<holder, removing, app>> /\ work' = Keep(work, holder, answered.songs)
  BY DEF EnqueueImported
<1>2. /\ UNCHANGED <<row, results, marker, events, shown, unread, listFailed, died,
                     missed, unstored>>
      /\ answered' = NoCall /\ answered.kind = "insert"
      /\ ToSet(calls) \subseteq ToSet(calls') /\ ImportsAreNew'
  BY <1>1, GoesOnIs
<1>3. /\ work' \in [Songs -> {"none", "enqueued"}]
      /\ \A s \in Songs : work[s] = "enqueued" => work'[s] = "enqueued"
      /\ \A s \in answered.songs : work'[s] = "enqueued" \/ (Runs(s) /\ ~holder.stopped)
  BY <1>1, AnsweredSongs, KeepIs DEF IInv, Types
<1>4. Types' /\ StartInOrder'
  BY <1>1, <1>3, ContinueTypes DEF IInv, Types, RunTypes, FileTypes
<1>5. MarkersCount' /\ BlamedFairly'
  BY <1>1, <1>2 DEF IInv, MarkersCount, BlamedFairly, Runs
<1>6. ResultsHeardOf'
  BY <1>1, <1>2 DEF IInv, ResultsHeardOf, Runs
<1>7. AnalyzingAttended'
  BY <1>1, <1>2, <1>3, NoCallIs DEF IInv, AnalyzingAttended, Analyzing, Attended, HasWork, Runs
<1> QED BY <1>2, <1>4, <1>5, <1>6, <1>7 DEF IInv

LEMMA BegunInv ==
  ASSUME AnalysisConstants, IInv, Reanalyze
  PROVE  IInv'
<1>1. /\ GoesOn({"begin"}) /\ calls' = refreshed(calls)
      /\ UNCHANGED <<removing, app>> /\ holder' = Stopped(holder, answered.songs)
      /\ work' = [s \in Songs |-> IF s \in answered.songs THEN "enqueued" ELSE work[s]]
  BY DEF Reanalyze
<1>2. /\ UNCHANGED <<row, results, marker, events, shown, unread, listFailed, died,
                     missed, unstored>>
      /\ answered' = NoCall /\ answered.kind = "begin"
      /\ ToSet(calls) \subseteq ToSet(calls') /\ ImportsAreNew'
  BY <1>1, GoesOnIs
<1>3. /\ holder' \in Holders /\ holder'.song = holder.song /\ holder'.at = holder.at
      /\ holder.song \notin answered.songs => holder' = holder
      /\ holder.at = "saving" => holder'.result = holder.result
  BY <1>1, AnsweredSongs, StoppedIs DEF IInv, Types, RunTypes
<1>4. Types' /\ StartInOrder'
  BY <1>1, <1>3, ContinueTypes DEF IInv, Types, RunTypes, FileTypes
<1>5. MarkersCount' /\ BlamedFairly'
  BY <1>2, <1>3 DEF IInv, MarkersCount, BlamedFairly, Runs
<1>6. ResultsHeardOf'
  BY <1>1, <1>2, <1>3 DEF IInv, ResultsHeardOf, Runs
<1>7. AnalyzingAttended'
  <2> SUFFICES ASSUME NEW s \in Songs, row[s].status = "analyzing" PROVE Attended(s)'
    BY <1>2, NoCallIs DEF AnalyzingAttended, Analyzing
  <2>1. Attended(s)
    BY DEF IInv, AnalyzingAttended, Analyzing
  <2>2. CASE s \in answered.songs
    BY <1>1, <2>2 DEF Attended, HasWork
  <2>3. CASE s \notin answered.songs
    BY <1>1, <1>2, <1>3, <2>1, <2>3 DEF Attended, HasWork, Runs
  <2> QED BY <2>2, <2>3
<1> QED BY <1>2, <1>4, <1>5, <1>6, <1>7 DEF IInv

LEMMA DeletedInv ==
  ASSUME AnalysisConstants, IInv, CancelDeleted
  PROVE  IInv'
<1>1. /\ GoesOn({"delete"}) /\ calls' = refreshed(calls)
      /\ app' = app /\ holder' = Stopped(holder, answered.songs)
      /\ removing' = removing \o SetToSeq(answered.songs)
      /\ work' = [s \in Songs |-> IF s \in answered.songs THEN "none" ELSE work[s]]
  BY DEF CancelDeleted
<1>2. /\ UNCHANGED <<row, results, marker, events, shown, unread, listFailed, died,
                     missed, unstored>>
      /\ answered' = NoCall /\ answered.kind = "delete"
      /\ ToSet(calls) \subseteq ToSet(calls') /\ ImportsAreNew'
  BY <1>1, GoesOnIs
<1>3. /\ holder' \in Holders /\ holder'.song = holder.song /\ holder'.at = holder.at
      /\ holder.song \notin answered.songs => holder' = holder
      /\ holder.at = "saving" => holder'.result = holder.result
  BY <1>1, AnsweredSongs, StoppedIs DEF IInv, Types, RunTypes
<1>4. /\ removing' \in Seq(Songs)
      /\ ToSet(removing') = ToSet(removing) \union answered.songs
  <2>1. answered.songs \in SUBSET Songs /\ IsFiniteSet(answered.songs)
    BY AnsweredSongs, FS_Subset DEF AnalysisConstants
  <2>2. /\ SetToSeq(answered.songs) \in Seq(Songs)
        /\ ToSet(SetToSeq(answered.songs)) = answered.songs
    BY <2>1, SetToSeqIs, SeqMonotonic
  <2> QED BY <1>1, <2>2, ConcatSet DEF IInv, Types, FileTypes
<1>5. Types' /\ StartInOrder'
  BY <1>1, <1>3, <1>4, ContinueTypes DEF IInv, Types, RunTypes
<1>6. MarkersCount' /\ BlamedFairly'
  BY <1>2, <1>3 DEF IInv, MarkersCount, BlamedFairly, Runs
<1>7. ResultsHeardOf'
  BY <1>1, <1>2, <1>3, <1>4 DEF IInv, ResultsHeardOf, Runs
<1>8. AnalyzingAttended'
  <2> SUFFICES ASSUME NEW s \in Songs, row[s].status = "analyzing" PROVE Attended(s)'
    BY <1>2, NoCallIs DEF AnalyzingAttended, Analyzing
  <2>1. Attended(s) /\ s \notin answered.songs
    BY <1>2, RecordsAre DEF IInv, AnalyzingAttended, Analyzing
  <2> QED BY <1>1, <1>2, <1>3, <2>1 DEF Attended, HasWork, Runs
<1> QED BY <1>2, <1>5, <1>6, <1>7, <1>8 DEF IInv

LEMMA DieInv ==
  ASSUME AnalysisConstants, IInv, Die
  PROVE  IInv'
<1>1. /\ app' = "dead" /\ holder' = Idle /\ events' = <<>> /\ calls' = <<>>
      /\ unread' = <<>> /\ removing' = <<>> /\ answered' = NoCall
      /\ shown' = [s \in Songs |-> NoRow] /\ UNCHANGED <<row, marker, results>>
      /\ work' = [s \in Songs |-> IF Runs(s) /\ ~holder.stopped THEN "enqueued" ELSE work[s]]
      /\ died' = [s \in Songs |-> IF Runs(s) /\ holder.at = "analyzing"
                                  THEN died[s] + 1 ELSE died[s]]
      /\ listFailed' = FALSE /\ missed' = {} /\ unstored' = {}
  BY DEF Die
<1>2. holder'.song \notin Songs /\ holder'.at = "idle" /\ holder' \in Holders
  BY <1>1 DEF Idle, AnalysisConstants, Holders
<1>3. Types'
  <2>1. TableTypes' /\ CallTypes'
    BY <1>1, EmptySet, RecordsAre, NoCallIs DEF IInv, Types, TableTypes, CallTypes
  <2>2. RunTypes' /\ FileTypes'
    BY <1>1, <1>2, EmptySet DEF IInv, Types, RunTypes, FileTypes
  <2> QED BY <2>1, <2>2 DEF Types
<1>4. StartInOrder' /\ ImportsAreNew'
  BY <1>1, EmptySet, NoCallIs DEF StartInOrder, ImportsAreNew
<1>5. MarkersCount' /\ BlamedFairly'
  BY <1>1, <1>2 DEF IInv, Types, RunTypes, MarkersCount, BlamedFairly, Runs
<1>6. ResultsHeardOf' /\ AnalyzingAttended'
  BY <1>1, NoCallIs DEF ResultsHeardOf, AnalyzingAttended, Analyzing, Attended, HasWork
<1> QED BY <1>3, <1>4, <1>5, <1>6 DEF IInv

-----------------------------------------------------------------------------
(* The invariant.                                                            *)

LEMMA InitInv ==
  ASSUME AnalysisConstants, Init
  PROVE  IInv
<1>1. Types
  BY EmptySet, RecordsAre, NoCallIs
     DEF Init, Types, TableTypes, CallTypes, RunTypes, FileTypes, Holders
<1>2. StartInOrder /\ ImportsAreNew
  BY EmptySet, NoCallIs DEF Init, StartInOrder, ImportsAreNew
<1>3. MarkersCount /\ BlamedFairly
  BY DEF Init, MarkersCount, BlamedFairly, Idle
<1>4. ResultsHeardOf /\ AnalyzingAttended
  BY NoCallIs DEF Init, ResultsHeardOf, AnalyzingAttended, Analyzing, Attended, HasWork
<1> QED BY <1>1, <1>2, <1>3, <1>4 DEF IInv

\* Only the transactor writes the table.
LEMMA NextInv ==
  ASSUME AnalysisConstants, IInv, [Next]_vars
  PROVE  IInv' /\ GridKept
<1>1. ASSUME UNCHANGED row PROVE GridKept
  BY <1>1 DEF GridKept
<1>2. CASE \E s \in Songs : AnalysisStart(s) \/ AnalysisStartFails(s)
  BY <1>1, <1>2, StartInv, StartFailsInv DEF AnalysisStart, AnalysisStartFails, store
<1>3. CASE Analysis
  BY <1>1, <1>3, EndInv, SaveInv, SaveFailsInv, EmitInv, EmitFailsInv
     DEF Analysis, AnalysisEnd, AnalysisSave, AnalysisSaveFails, AnalysisEmit,
         AnalysisEmitFails, store
<1>4. CASE RemoveResult
  BY <1>1, <1>4, RemoveInv DEF RemoveResult, store
<1>5. CASE Start
  BY <1>1, <1>5, ListenInv, PendingReadInv, PendingReceiveInv
     DEF Start, StartListening, PendingRead, PendingReceive
<1>6. CASE receiveAnalysis
  BY <1>1, <1>6, ReceiveInv DEF receiveAnalysis
<1>7. CASE Serve \/ ServeFails
  BY <1>1, <1>7, ServeInv, ServeFailsInv DEF ServeFails
<1>8. CASE Continue
  BY <1>1, <1>8, AcknowledgeInv, ClaimedInv, ImportedInv, BegunInv, DeletedInv
     DEF Continue, Acknowledge, AnalyzeClaimed, EnqueueImported, Reanalyze,
         CancelDeleted, GoesOn
<1>9. ASSUME NEW s \in Songs, importSong(s) \/ reanalyze(s) \/ deleteRow(s)
      PROVE  IInv' /\ GridKept
  BY <1>1, <1>9, TappedInv DEF importSong, reanalyze, deleteRow, Tapped
<1>10. CASE Die
  BY <1>1, <1>10, DieInv DEF Die
<1>11. CASE UNCHANGED vars
  <2>1. UNCHANGED store /\ UNCHANGED native /\ UNCHANGED row
    BY <1>11 DEF vars, store, native
  <2>2. ResultsHeardOf' /\ AnalyzingAttended'
    BY <1>11 DEF IInv, vars, ResultsHeardOf, AnalyzingAttended, Analyzing, Attended, HasWork, Runs
  <2> QED BY <1>1, <2>1, <2>2, StoreStays, NativeStays DEF IInv, Types
<1> QED
  BY <1>2, <1>3, <1>4, <1>5, <1>6, <1>7, <1>8, <1>9, <1>10, <1>11 DEF Next

\* What it says once nothing is under way.
LEMMA InvIsAttended ==
  ASSUME AnalysisConstants, IInv
  PROVE  AnalysisAttended /\ BlamedFairly
<1> SUFFICES ASSUME Quiet PROVE AnalysisAttended
  BY DEF AnalysisAttended, IInv
<1>1. /\ app \in {"started", "unclaimed"} /\ holder = Idle /\ answered = NoCall
      /\ calls = <<>> /\ events = <<>> /\ removing = <<>> /\ unread = <<>>
  BY DEF Quiet, IInv, StartInOrder
<1>2. /\ answered.kind = "none" /\ \A s \in Songs : ~Runs(s)
      /\ ToSet(events) = {} /\ ToSet(calls) = {} /\ ToSet(removing) = {} /\ ToSet(unread) = {}
  BY <1>1, EmptySet, NoCallIs DEF Idle, Runs, AnalysisConstants
<1>3. app = "started" => listFailed \/ shown = row
  BY <1>1, <1>2 DEF IInv, StartInOrder
<1>4. ASSUME NEW s \in Songs
      PROVE  /\ Analyzing(s) => work[s] = "enqueued" \/ s \in missed
             /\ results[s] # NoFile => s \in unstored
  BY <1>1, <1>2 DEF IInv, AnalyzingAttended, Analyzing, Attended, HasWork, ResultsHeardOf
<1> QED BY <1>3, <1>4 DEF AnalysisAttended

\* The invariant holds of every behaviour: nothing is lost between the table, the
\* work and the result files but by a failed call, run or file, and what these take
\* is noted until the process dies (songLibrary/store.ts, AnalysisRun.kt,
\* AnalysisStore.kt).
THEOREM AnalysisInvariant ==
  ASSUME AnalysisConstants
  PROVE  Spec => []IInv
<1>1. Init => IInv
  BY InitInv
<1>2. IInv /\ [Next]_vars => IInv'
  BY NextInv
<1> QED BY <1>1, <1>2, PTL DEF Spec

\* However often the process dies and whatever answers late, a song that shows it is
\* being analysed is, once nothing else is under way, and no result stays unread; but
\* for the songs that, since the app started, failed to be marked, saved, stored or
\* claimed, or whose result would not be deleted (store.ts, start and
\* receiveAnalysis; AnalysisRun.kt).
THEOREM SongsAreAttended ==
  ASSUME AnalysisConstants
  PROVE  Spec => []AnalysisAttended
<1>1. IInv => AnalysisAttended
  BY InvIsAttended
<1> QED BY <1>1, AnalysisInvariant, PTL

\* A song is given up only after two runs of it in a row killed the process or left
\* their marker cut short (AnalysisStore.kt's markers).
THEOREM SongsAreBlamedFairly ==
  ASSUME AnalysisConstants
  PROVE  Spec => []BlamedFairly
<1>1. IInv => BlamedFairly
  BY InvIsAttended
<1> QED BY <1>1, AnalysisInvariant, PTL

\* No failed, stopped or late analysis takes the grid of an earlier one
\* (analysisFields, and the transactor's order).
THEOREM GridsAreKept ==
  ASSUME AnalysisConstants
  PROVE  Spec => [][GridKept]_vars
<1>1. IInv /\ [Next]_vars => [GridKept]_vars
  BY NextInv
<1> QED BY <1>1, AnalysisInvariant, PTL DEF Spec
================================================================================
