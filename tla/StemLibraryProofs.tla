--------------------------- MODULE StemLibraryProofs ---------------------------
(* The stem library keeps its files: proofs of StemLibrary's properties for any  *)
(* number of bundles and of flows.                                               *)
EXTENDS StemLibrary, TLAPS

Places == (Jobs \union {None}) \X (NAMES \union {0})
Bundles == [job : Jobs, lyrics : Lyrics]
RowRecords == [id : Nat, job : Jobs, lyrics : Lyrics, folder : Places, renamed : BOOLEAN,
         retimed : Lyrics \union {None}]

\* Where a flow of each kind can be.
Phases(kind) ==
  CASE kind = "import" -> {"checking", "finding", "copying", "storing", "undoing",
                           "clearing", "refreshing"}
    [] kind = "delete" -> {"deleting", "listing", "clearing", "refreshing"}
    [] kind = "rename" -> {"renaming", "refreshing"}
    [] kind = "times" -> {"retiming"}
    [] kind = "list" -> {"refreshing"}
    [] OTHER -> {"done"}

Kinds == {None, "import", "delete", "rename", "times", "list"}
Stages == UNION {Phases(kind) : kind \in Kinds}

Calls ==
  {c \in [kind : Kinds, at : Stages, id : Nat, bundle : Bundles \union {NoBundle},
          folder : Places, replace : BOOLEAN] :
     /\ c.at \in Phases(c.kind)
     /\ c.kind \in {"import", "times"} => c.bundle \in Bundles}

ScreenTypes ==
  /\ pending \in Bundles \union {NoBundle}
  /\ shown \in SUBSET RowRecords
  /\ menu \in [kind : {None, "actions", "rename", "delete"}, target : RowRecords \union {NoRow}]

Types ==
  /\ sets \in SUBSET RowRecords /\ nextId \in Nat \ {0}
  /\ disk \in SUBSET Places /\ undeleted \in SUBSET Places
  /\ flow \in [Flows -> Calls]
  /\ sweep \in [at : {"off", "skipped", "disk", "table", "deleting", "swept"},
                idle : BOOLEAN, onDisk : SUBSET Places, orphans : SUBSET Places]
  /\ crossed \in BOOLEAN
  /\ ScreenTypes

\* A row is told by its id, and by its job; times are for the lyrics they stand by.
RowsTold ==
  /\ \A r \in sets : r.id < nextId /\ r.retimed \in {None, r.lyrics}
  /\ \A r, q \in sets : (r.id = q.id \/ r.job = q.job) => r = q

\* A save of times is for the lyrics of the row it was begun on, if that is there.
TimesMeant ==
  \A f \in Flows : At(f, "retiming") =>
     /\ flow[f].id < nextId
     /\ \A r \in sets : r.id = flow[f].id => r.lyrics = flow[f].bundle.lyrics

\* Flows whose folder is a copy without a row, and those whose folder has lost its.
Copies == {f \in Flows : flow[f].at \in {"storing", "undoing"}}
Leavers == {f \in Flows : flow[f].at \in {"clearing", "listing"}}

\* As long as no name was taken again too early, a folder is one row's or one
\* copy's, or is to be deleted.
FilesOwned ==
  ~crossed =>
    /\ \A r \in sets : r.folder \in disk \ Doomed
    /\ \A r, q \in sets : r.folder = q.folder => r = q
    /\ \A f \in Copies : flow[f].folder \in disk \ (Doomed \union Folders(sets))
    /\ \A f, g \in Copies : flow[f].folder = flow[g].folder => f = g

\* The folders somebody answers for, and what the sweep leaves beside them.
Accounted ==
  Folders(sets) \union undeleted \union {flow[f].folder : f \in Copies \union Leavers}
LeftOver ==
  CASE sweep.at = "table" -> sweep.onDisk
    [] sweep.at = "deleting" -> sweep.orphans
    [] sweep.at = "swept" -> {}
    [] OTHER -> Places

FoldersAnswered == disk \subseteq Accounted \union LeftOver

IInv == Types /\ RowsTold /\ TimesMeant /\ FilesOwned /\ FoldersAnswered

-----------------------------------------------------------------------------
(* Calls.                                                                      *)

LEMMA NoFlowIsACall == NoFlow \in Calls
<1>1. /\ None \in Kinds /\ Phases(None) = {"done"} /\ None \notin {"import", "times"}
      /\ Folder(None, 0) \in Places
  BY DEF None, Kinds, Phases, Places, Folder
<1>2. "done" \in Stages
  BY <1>1 DEF Stages
<1> QED BY <1>1, <1>2 DEF NoFlow, Calls

\* Where a flow is tells what it is for.
LEMMA StageTellsKind ==
  ASSUME NEW c \in Calls
  PROVE  /\ c.at \in {"checking", "finding", "copying", "storing", "undoing"} =>
              c.kind = "import"
         /\ c.at = "clearing" => c.kind \in {"import", "delete"}
         /\ c.at \in {"deleting", "listing"} => c.kind = "delete"
         /\ c.at = "renaming" => c.kind = "rename"
         /\ c.at = "retiming" => c.kind = "times"
         /\ c.at = "refreshing" => c.kind \in {"import", "delete", "rename", "list"}
<1>1. c.kind \in Kinds /\ c.at \in Phases(c.kind)
  BY DEF Calls
<1> QED BY <1>1 DEF Kinds, Phases, None

\* The same call at another stage of its kind, with what it holds there.
LEMMA CallGoesOn ==
  ASSUME NEW c \in Calls, NEW at \in Phases(c.kind), NEW folder \in Places
  PROVE  /\ [c EXCEPT !.at = at] \in Calls
         /\ [c EXCEPT !.at = at, !.folder = folder] \in Calls
<1>1. c.kind \in Kinds
  BY DEF Calls
<1>2. at \in Stages
  BY <1>1 DEF Stages
<1> QED BY <1>2 DEF Calls

LEMMA FlowGoes ==
  ASSUME flow \in [Flows -> Calls], NEW f \in Flows, NEW at \in Phases(flow[f].kind),
         Goes(f, at)
  PROVE  /\ flow' \in [Flows -> Calls]
         /\ flow'[f] = [flow[f] EXCEPT !.at = at]
         /\ \A g \in Flows \ {f} : flow'[g] = flow[g]
<1>1. PICK c \in Calls : c = flow[f]
  OBVIOUS
<1>2. PICK d : d = [c EXCEPT !.at = at]
  OBVIOUS
<1>3. c.folder \in Places
  BY DEF Calls
<1>4. d \in Calls
  BY <1>1, <1>2, <1>3, CallGoesOn
<1>5. flow' = [flow EXCEPT ![f] = d]
  BY <1>1, <1>2 DEF Goes
<1> QED BY <1>1, <1>2, <1>4, <1>5

LEMMA FlowGoesWith ==
  ASSUME flow \in [Flows -> Calls], NEW f \in Flows, NEW at \in Phases(flow[f].kind),
         NEW folder \in Places,
         flow' = [flow EXCEPT ![f].at = at, ![f].folder = folder]
  PROVE  /\ flow' \in [Flows -> Calls]
         /\ flow'[f] = [flow[f] EXCEPT !.at = at, !.folder = folder]
         /\ \A g \in Flows \ {f} : flow'[g] = flow[g]
<1>1. PICK c \in Calls : c = flow[f]
  OBVIOUS
<1>2. PICK d : d = [c EXCEPT !.at = at, !.folder = folder]
  OBVIOUS
<1>3. d \in Calls
  BY <1>1, <1>2, CallGoesOn
<1>4. flow' = [flow EXCEPT ![f] = d]
  BY <1>1, <1>2
<1> QED BY <1>1, <1>2, <1>3, <1>4

LEMMA FlowEnds ==
  ASSUME flow \in [Flows -> Calls], NEW f \in Flows, Ends(f)
  PROVE  /\ flow' \in [Flows -> Calls]
         /\ flow'[f] = NoFlow
         /\ \A g \in Flows \ {f} : flow'[g] = flow[g]
BY NoFlowIsACall DEF Ends

\* What a call may begin as.
LEMMA Beginnings ==
  /\ [NoFlow EXCEPT !.kind = "list", !.at = "refreshing"] \in Calls
  /\ \A b \in Bundles :
       [NoFlow EXCEPT !.kind = "import", !.at = "checking", !.bundle = b] \in Calls
  /\ \A b \in Bundles, replace \in BOOLEAN :
       [NoFlow EXCEPT !.kind = "import", !.at = "copying", !.bundle = b,
                      !.replace = replace] \in Calls
  /\ \A id \in Nat :
       /\ [NoFlow EXCEPT !.kind = "rename", !.at = "renaming", !.id = id] \in Calls
       /\ [NoFlow EXCEPT !.kind = "delete", !.at = "deleting", !.id = id] \in Calls
       /\ \A b \in Bundles :
            [NoFlow EXCEPT !.kind = "times", !.at = "retiming", !.id = id,
                           !.bundle = b] \in Calls
<1>1. /\ {"list", "import", "rename", "delete", "times"} \subseteq Kinds
      /\ "refreshing" \in Phases("list")
      /\ {"checking", "copying"} \subseteq Phases("import")
      /\ "renaming" \in Phases("rename") /\ "deleting" \in Phases("delete")
      /\ "retiming" \in Phases("times")
  BY DEF Kinds, Phases
<1>2. {"refreshing", "checking", "copying", "renaming", "deleting", "retiming"}
        \subseteq Stages
  BY <1>1 DEF Stages
<1>3. NoFlow \in [kind : Kinds, at : Stages, id : Nat, bundle : Bundles \union {NoBundle},
                  folder : Places, replace : BOOLEAN]
  BY NoFlowIsACall DEF Calls
<1> QED BY <1>1, <1>2, <1>3 DEF Calls

-----------------------------------------------------------------------------
(* Steps that leave the files alone.                                           *)

\* A step that leaves rows and folders alone, begins or ends no hold on a folder.
LEMMA FilesQuiet ==
  ASSUME FilesOwned, FoldersAnswered,
         UNCHANGED <<sets, disk, crossed, undeleted>>,
         sweep'.at = sweep.at, sweep'.onDisk = sweep.onDisk,
         sweep'.orphans = sweep.orphans,
         \A g \in Flows :
           \/ flow'[g] = flow[g]
           \/ /\ flow[g].at \notin {"storing", "undoing", "clearing", "listing"}
              /\ flow'[g].at \notin {"storing", "undoing", "clearing", "listing"}
           \/ /\ \/ flow[g].at = "listing" /\ flow'[g].at = "clearing"
                 \/ flow[g].at = "storing" /\ flow'[g].at = "undoing"
              /\ flow'[g].folder = flow[g].folder
  PROVE  FilesOwned' /\ FoldersAnswered'
<1>1. Copies' = Copies /\ Leavers' = Leavers
  BY DEF Copies, Leavers
<1>2. \A g \in Copies \union Leavers : g \in Flows /\ flow'[g].folder = flow[g].folder
  BY DEF Copies, Leavers
<1>3. /\ {flow'[g].folder : g \in Leavers} = {flow[g].folder : g \in Leavers}
      /\ {flow'[g].folder : g \in Copies \union Leavers}
           = {flow[g].folder : g \in Copies \union Leavers}
  BY <1>2
<1>4. Doomed' = Doomed /\ Accounted' = Accounted /\ LeftOver' = LeftOver
  <2>1. Folders(sets)' = Folders(sets)
    BY DEF Folders
  <2>2. Doomed = sweep.orphans \union {flow[g].folder : g \in Leavers}
    BY DEF Doomed, Leavers
  <2>3. Doomed' = sweep'.orphans \union {flow'[g].folder : g \in Leavers'}
    BY DEF Doomed, Leavers
  <2>4. Accounted' = Accounted
    BY <1>1, <1>3, <2>1 DEF Accounted
  <2>5. LeftOver' = LeftOver
    BY DEF LeftOver
  <2> QED BY <1>1, <1>3, <2>2, <2>3, <2>4, <2>5
<1>5. FilesOwned'
  <2>1. Folders(sets)' = Folders(sets)
    BY DEF Folders
  <2> QED BY <1>1, <1>2, <1>4, <2>1 DEF FilesOwned
<1>6. FoldersAnswered'
  BY <1>4 DEF FoldersAnswered
<1> QED BY <1>5, <1>6

\* Ids are given once, and a row keeps its lyrics.
LEMMA TimesStayMeant ==
  ASSUME TimesMeant, nextId \in Nat, nextId' \in Nat, nextId <= nextId',
         \A q \in sets' : q.id < nextId =>
            \E r \in sets : r.id = q.id /\ r.lyrics = q.lyrics,
         \A g \in Flows : flow'[g].at = "retiming" =>
            flow'[g] = flow[g] /\ flow[g].id \in Nat
  PROVE  TimesMeant'
<1> SUFFICES ASSUME NEW g \in Flows, flow'[g].at = "retiming"
             PROVE  /\ flow'[g].id < nextId'
                    /\ \A q \in sets' : q.id = flow'[g].id =>
                         q.lyrics = flow'[g].bundle.lyrics
  BY DEF TimesMeant, At
<1>1. /\ flow'[g] = flow[g] /\ flow[g].id \in Nat
      /\ flow[g].id < nextId
      /\ \A r \in sets : r.id = flow[g].id => r.lyrics = flow[g].bundle.lyrics
  BY DEF TimesMeant, At
<1> QED BY <1>1

\* Flows move on without a hold on a folder, or with the one they have.
QuietFlows ==
  /\ flow' \in [Flows -> Calls]
  /\ \A g \in Flows :
       \/ flow'[g] = flow[g]
       \/ /\ flow[g].at \notin {"storing", "undoing", "clearing", "listing"}
          /\ flow'[g].at \notin {"storing", "undoing", "clearing", "listing", "retiming"}
       \/ /\ \/ flow[g].at = "listing" /\ flow'[g].at = "clearing"
             \/ flow[g].at = "storing" /\ flow'[g].at = "undoing"
          /\ flow'[g].folder = flow[g].folder

LEMMA QuietStep ==
  ASSUME IInv, QuietFlows, ScreenTypes', UNCHANGED <<table, disk, crossed, undeleted>>,
         sweep' \in {sweep, [sweep EXCEPT !.idle = FALSE]}
  PROVE  IInv'
<1>1. Types /\ RowsTold /\ TimesMeant /\ FilesOwned /\ FoldersAnswered
  BY DEF IInv
<1>2. /\ sets' = sets /\ nextId' = nextId /\ disk' = disk /\ crossed' = crossed
      /\ undeleted' = undeleted
  BY DEF table
<1>3. /\ sweep'.at = sweep.at /\ sweep'.onDisk = sweep.onDisk
      /\ sweep'.orphans = sweep.orphans
      /\ sweep' \in [at : {"off", "skipped", "disk", "table", "deleting", "swept"},
                     idle : BOOLEAN, onDisk : SUBSET Places, orphans : SUBSET Places]
  BY <1>1 DEF Types
<1>4. Types'
  BY <1>1, <1>2, <1>3 DEF Types, QuietFlows
<1>5. RowsTold'
  BY <1>1, <1>2 DEF RowsTold
<1>6. TimesMeant'
  <2>1. nextId \in Nat
    BY <1>1 DEF Types
  <2>2. \A g \in Flows : flow[g].id \in Nat
    BY <1>1 DEF Types, Calls
  <2>3. \A g \in Flows : flow'[g].at = "retiming" => flow'[g] = flow[g]
    BY DEF QuietFlows
  <2> QED BY <1>1, <1>2, <2>1, <2>2, <2>3, TimesStayMeant
<1>7. FilesOwned' /\ FoldersAnswered'
  BY <1>1, <1>2, <1>3, FilesQuiet DEF QuietFlows
<1> QED BY <1>4, <1>5, <1>6, <1>7 DEF IInv

LEMMA QuietGoes ==
  ASSUME flow \in [Flows -> Calls], NEW f \in Flows, NEW at \in Phases(flow[f].kind),
         Goes(f, at),
         \/ /\ flow[f].at \notin {"storing", "undoing", "clearing", "listing"}
            /\ at \notin {"storing", "undoing", "clearing", "listing", "retiming"}
         \/ flow[f].at = "listing" /\ at = "clearing"
         \/ flow[f].at = "storing" /\ at = "undoing"
  PROVE  QuietFlows
<1>1. /\ flow' \in [Flows -> Calls]
      /\ flow'[f] = [flow[f] EXCEPT !.at = at]
      /\ \A g \in Flows \ {f} : flow'[g] = flow[g]
  BY FlowGoes
<1>2. flow'[f].at = at /\ flow'[f].folder = flow[f].folder
  <2>1. PICK c \in Calls : c = flow[f]
    OBVIOUS
  <2> QED BY <1>1, <2>1 DEF Calls
<1> QED BY <1>1, <1>2 DEF QuietFlows

LEMMA QuietEnds ==
  ASSUME flow \in [Flows -> Calls], NEW f \in Flows, Ends(f),
         flow[f].at \notin {"storing", "undoing", "clearing", "listing"}
  PROVE  QuietFlows
<1>1. /\ flow' \in [Flows -> Calls]
      /\ flow'[f] = NoFlow
      /\ \A g \in Flows \ {f} : flow'[g] = flow[g]
  BY FlowEnds
<1>2. NoFlow.at = "done"
  BY DEF NoFlow
<1> QED BY <1>1, <1>2 DEF QuietFlows

LEMMA QuietBegins ==
  ASSUME flow \in [Flows -> Calls], NEW c \in Calls, Begins(c),
         c.at \notin {"storing", "undoing", "clearing", "listing", "retiming"}
  PROVE  QuietFlows
<1>1. PICK f \in Flows : flow[f] = NoFlow /\ flow' = [flow EXCEPT ![f] = c]
  BY DEF Begins
<1>2. NoFlow.at = "done"
  BY DEF NoFlow
<1> QED BY <1>1, <1>2 DEF QuietFlows

LEMMA QuietStarts ==
  ASSUME flow \in [Flows -> Calls], NEW f \in Flows, NEW b \in Bundles,
         NEW replace \in BOOLEAN, Starts(f, replace, b),
         flow[f].at \notin {"storing", "undoing", "clearing", "listing"}
  PROVE  QuietFlows
<1>1. PICK c : c = [NoFlow EXCEPT !.kind = "import", !.at = "copying", !.bundle = b,
                                  !.replace = replace]
  OBVIOUS
<1>2. c \in Calls
  BY <1>1, Beginnings
<1>3. c.at = "copying"
  BY <1>1 DEF NoFlow
<1>4. flow' = [flow EXCEPT ![f] = c]
  BY <1>1 DEF Starts
<1>5. /\ flow' \in [Flows -> Calls] /\ flow'[f].at = "copying"
      /\ \A g \in Flows \ {f} : flow'[g] = flow[g]
  BY <1>2, <1>3, <1>4
<1> QED BY <1>5 DEF QuietFlows

LEMMA QuietlyNothing ==
  ASSUME flow \in [Flows -> Calls], UNCHANGED flow
  PROVE  QuietFlows
BY DEF QuietFlows

-----------------------------------------------------------------------------
(* The steps of a flow that leave the files alone.                             *)

LEMMA CheckInv ==
  ASSUME IInv, NEW f \in Flows, Check(f)
  PROVE  IInv'
<1>1. Types /\ flow \in [Flows -> Calls] /\ flow[f] \in Calls
  BY DEF IInv, Types
<1>2. flow[f].at = "checking" /\ flow[f].kind = "import"
  BY <1>1, StageTellsKind DEF Check, At
<1>3. Goes(f, "finding") \/ Ends(f)
  BY DEF Check
<1>4. QuietFlows
  <2>1. "finding" \in Phases(flow[f].kind)
    BY <1>2 DEF Phases
  <2> QED BY <1>1, <1>2, <1>3, <2>1, QuietGoes, QuietEnds
<1>5. UNCHANGED <<table, disk, crossed, undeleted, sweep>>
  BY DEF Check
<1>6. ScreenTypes'
  BY <1>1 DEF Check, Types, ScreenTypes
<1> QED BY <1>4, <1>5, <1>6, QuietStep

LEMMA FindInv ==
  ASSUME IInv, NEW f \in Flows, Find(f)
  PROVE  IInv'
<1>1. Types /\ flow \in [Flows -> Calls] /\ flow[f] \in Calls
  BY DEF IInv, Types
<1>2. /\ flow[f].at = "finding" /\ flow[f].kind = "import"
      /\ flow[f].bundle \in Bundles
  BY <1>1, StageTellsKind DEF Find, At, Calls
<1>3. \/ Ends(f) /\ sweep' = sweep /\ pending' = flow[f].bundle
      \/ Starts(f, FALSE, flow[f].bundle) /\ pending' = pending
  BY DEF Find
<1>4. QuietFlows
  BY <1>1, <1>2, <1>3, QuietEnds, QuietStarts
<1>5. /\ UNCHANGED <<table, disk, crossed, undeleted>>
      /\ sweep' \in {sweep, [sweep EXCEPT !.idle = FALSE]}
  BY DEF Find, Starts
<1>6. ScreenTypes'
  BY <1>1, <1>2, <1>3 DEF Find, screen, Types, ScreenTypes
<1> QED BY <1>4, <1>5, <1>6, QuietStep

LEMMA RefreshInv ==
  ASSUME IInv, NEW f \in Flows, Refresh(f)
  PROVE  IInv'
<1>1. Types /\ flow \in [Flows -> Calls] /\ flow[f] \in Calls
  BY DEF IInv, Types
<1>2. QuietFlows
  <2>1. CASE flow[f].at = "listing"
    <3>1. Goes(f, "clearing")
      BY <2>1 DEF Refresh, At
    <3>2. "clearing" \in Phases(flow[f].kind)
      BY <1>1, <2>1, StageTellsKind DEF Phases
    <3> QED BY <1>1, <2>1, <3>1, <3>2, QuietGoes
  <2>2. CASE flow[f].at = "refreshing"
    <3>1. Ends(f)
      BY <2>2 DEF Refresh, At
    <3> QED BY <1>1, <2>2, <3>1, QuietEnds
  <2> QED BY <2>1, <2>2 DEF Refresh
<1>3. UNCHANGED <<table, disk, crossed, undeleted, sweep>>
  BY DEF Refresh
<1>4. ScreenTypes'
  <2>1. shown' \in {sets, shown} /\ pending' = pending /\ menu' = menu
    BY DEF Refresh
  <2> QED BY <1>1, <2>1 DEF Types, ScreenTypes
<1> QED BY <1>2, <1>3, <1>4, QuietStep

-----------------------------------------------------------------------------
(* The user.                                                                   *)

LEMMA UserInv ==
  ASSUME IInv, User, ~SaveTiming
  PROVE  IInv'
<1>1. Types /\ flow \in [Flows -> Calls]
  BY DEF IInv, Types
<1>2. \A r \in RowRecords \union {NoRow} : r.id \in Nat
  BY DEF RowRecords, NoRow
<1>3. CASE Enter
  <2>1. QuietFlows
    <3>1. PICK c : c = [NoFlow EXCEPT !.kind = "list", !.at = "refreshing"]
      OBVIOUS
    <3>2. c \in Calls /\ c.at = "refreshing"
      BY <3>1, Beginnings DEF NoFlow
    <3> QED BY <1>1, <1>3, <3>1, <3>2, QuietBegins DEF Enter
  <2> QED BY <1>1, <1>3, <2>1, QuietStep DEF Enter, rest, Types, ScreenTypes
<1>4. CASE Picked
  <2>1. QuietFlows
    <3>1. CASE flow' = flow
      BY <1>1, <3>1, QuietlyNothing
    <3>2. CASE \E job \in Jobs, lyrics \in Lyrics :
                 Begins([NoFlow EXCEPT !.kind = "import", !.at = "checking",
                                       !.bundle = Bundle(job, lyrics)])
      <4>1. PICK b \in Bundles :
              Begins([NoFlow EXCEPT !.kind = "import", !.at = "checking", !.bundle = b])
        BY <3>2 DEF Bundle, Bundles
      <4>2. PICK c : c = [NoFlow EXCEPT !.kind = "import", !.at = "checking",
                                        !.bundle = b]
        OBVIOUS
      <4>3. c \in Calls /\ c.at = "checking"
        BY <4>2, Beginnings DEF NoFlow
      <4> QED BY <1>1, <4>1, <4>2, <4>3, QuietBegins
    <3> QED BY <1>4, <3>1, <3>2 DEF Picked
  <2> QED BY <1>1, <1>4, <2>1, QuietStep DEF Picked, Types, ScreenTypes
<1>5. CASE confirmReplace
  <2>1. PICK f \in Flows : flow[f] = NoFlow /\ Starts(f, TRUE, pending)
    BY <1>5 DEF confirmReplace
  <2>2. pending \in Bundles
    BY <1>1, <1>5 DEF confirmReplace, Types, ScreenTypes
  <2>3. QuietFlows
    <3>1. PICK b \in Bundles : b = pending
      BY <2>2
    <3>2. flow[f].at = "done"
      BY <2>1 DEF NoFlow
    <3>3. Starts(f, TRUE, b)
      BY <2>1, <3>1 DEF Starts
    <3> QED BY <1>1, <3>2, <3>3, QuietStarts
  <2>4. sweep' = [sweep EXCEPT !.idle = FALSE]
    BY <2>1 DEF Starts
  <2> QED BY <1>1, <1>5, <2>3, <2>4, QuietStep DEF confirmReplace, screen, Types, ScreenTypes
<1>6. CASE RenameSheet \/ DeleteSheet
  <2>1. PICK id \in Nat : id = menu.target.id
    BY <1>1, <1>2 DEF Types, ScreenTypes
  <2>2. QuietFlows
    <3>1. PICK c, d : /\ c = [NoFlow EXCEPT !.kind = "rename", !.at = "renaming",
                                            !.id = id]
                      /\ d = [NoFlow EXCEPT !.kind = "delete", !.at = "deleting",
                                            !.id = id]
      OBVIOUS
    <3>2. c \in Calls /\ c.at = "renaming" /\ d \in Calls /\ d.at = "deleting"
      BY <3>1, Beginnings DEF NoFlow
    <3>3. flow' = flow \/ Begins(c) \/ Begins(d)
      BY <1>6, <2>1, <3>1 DEF RenameSheet, DeleteSheet
    <3> QED BY <1>1, <3>2, <3>3, QuietBegins, QuietlyNothing
  <2>3. menu' = [menu EXCEPT !.kind = None] /\ pending' = pending /\ shown' = shown
    BY <1>6 DEF RenameSheet, DeleteSheet, closed
  <2>4. ScreenTypes'
    BY <1>1, <2>3 DEF Types, ScreenTypes
  <2>5. UNCHANGED <<table, disk, crossed, undeleted, sweep>>
    BY <1>6 DEF RenameSheet, DeleteSheet, rest
  <2> QED BY <2>2, <2>4, <2>5, QuietStep
<1>7. CASE Search \/ Pick \/ cancelReplace \/ OpenActions \/ ActionsSheet \/ NoticeCard
  <2>1. UNCHANGED <<table, disk, crossed, undeleted, sweep, flow>>
    BY <1>7 DEF Search, Pick, cancelReplace, OpenActions, ActionsSheet, NoticeCard, rest
  <2>2. shown' = shown /\ pending' \in {pending, NoBundle}
    BY <1>7 DEF Search, Pick, cancelReplace, OpenActions, ActionsSheet, NoticeCard,
                rest, screen
  <2>3. menu' \in [kind : {None, "actions", "rename", "delete"},
                   target : RowRecords \union {NoRow}]
    <3>1. CASE OpenActions
      <4>1. PICK r \in filterRows : menu' = [kind |-> "actions", target |-> r]
        BY <3>1 DEF OpenActions
      <4>2. r \in RowRecords
        BY <1>1 DEF filterRows, Types, ScreenTypes
      <4> QED BY <4>1, <4>2
    <3>2. CASE ActionsSheet
      BY <1>1, <3>2 DEF ActionsSheet, Types, ScreenTypes
    <3>3. CASE menu' = menu
      BY <1>1, <3>3 DEF Types, ScreenTypes
    <3> QED BY <1>7, <3>1, <3>2, <3>3
            DEF Search, Pick, cancelReplace, NoticeCard, rest, screen
  <2>4. ScreenTypes'
    BY <1>1, <2>2, <2>3 DEF Types, ScreenTypes
  <2> QED BY <1>1, <2>1, <2>4, QuietlyNothing, QuietStep
<1> QED BY <1>3, <1>4, <1>5, <1>6, <1>7 DEF User

LEMMA SaveTimingInv ==
  ASSUME IInv, SaveTiming
  PROVE  IInv'
<1>1. Types /\ RowsTold /\ TimesMeant /\ FilesOwned /\ FoldersAnswered
  BY DEF IInv
<1>2. /\ flow \in [Flows -> Calls] /\ nextId \in Nat /\ sets \subseteq RowRecords
  BY <1>1 DEF Types
<1>3. PICK r \in sets :
        Begins([NoFlow EXCEPT !.kind = "times", !.at = "retiming", !.id = r.id,
                              !.bundle = Bundle(r.job, r.lyrics)])
  BY DEF SaveTiming
<1>4. PICK c : c = [NoFlow EXCEPT !.kind = "times", !.at = "retiming", !.id = r.id,
                                  !.bundle = Bundle(r.job, r.lyrics)]
  OBVIOUS
<1>5. /\ c \in Calls /\ c.at = "retiming" /\ c.id = r.id
      /\ c.bundle.lyrics = r.lyrics
  <2>1. r \in RowRecords
    BY <1>2
  <2>2. Bundle(r.job, r.lyrics) \in Bundles /\ r.id \in Nat
    BY <2>1 DEF RowRecords, Bundle, Bundles
  <2>3. c \in Calls
    BY <1>4, <2>2, Beginnings
  <2> QED BY <1>4, <2>3 DEF NoFlow, Bundle
<1>6. PICK f \in Flows : flow[f] = NoFlow /\ flow' = [flow EXCEPT ![f] = c]
  BY <1>3, <1>4 DEF Begins
<1>7. UNCHANGED <<sets, nextId, disk, crossed, undeleted, sweep, pending, shown, menu>>
  BY DEF SaveTiming, rest, table, screen
<1>8. NoFlow.at = "done"
  BY DEF NoFlow
<1>9. Types'
  BY <1>1, <1>2, <1>5, <1>6, <1>7 DEF Types, ScreenTypes
<1>10. RowsTold'
  BY <1>1, <1>7 DEF RowsTold
<1>11. TimesMeant'
  <2>1. /\ flow'[f] = c /\ r.id < nextId
        /\ \A q \in sets : q.id = r.id => q.lyrics = r.lyrics
    BY <1>1, <1>2, <1>6 DEF RowsTold
  <2>2. \A g \in Flows \ {f} : flow'[g] = flow[g]
    BY <1>2, <1>6
  <2> QED BY <1>1, <1>5, <1>7, <2>1, <2>2 DEF TimesMeant, At
<1>12. FilesOwned' /\ FoldersAnswered'
  <2>1. \A g \in Flows :
          \/ flow'[g] = flow[g]
          \/ /\ flow[g].at \notin {"storing", "undoing", "clearing", "listing"}
             /\ flow'[g].at \notin {"storing", "undoing", "clearing", "listing"}
    BY <1>2, <1>5, <1>6, <1>8
  <2> QED BY <1>1, <1>7, <2>1, FilesQuiet
<1> QED BY <1>9, <1>10, <1>11, <1>12 DEF IInv

-----------------------------------------------------------------------------
(* An import: its copy, its row, what it replaces.                             *)

\* moveIntoPlace takes a name of the job that is not on disk.
LEMMA PlaceIsFree ==
  ASSUME NEW job \in Jobs, \E n \in NAMES : Folder(job, n) \notin disk
  PROVE  moveIntoPlace(job) \in Places \ disk
<1> DEFINE Free(n) == /\ Folder(job, n) \notin disk
                      /\ \A m \in NAMES : m < n => Folder(job, m) \in disk
<1>1. \E n \in NAMES : Free(n)
  <2>1. CASE Folder(job, 1) \notin disk
    <3>1. 1 \in NAMES /\ \A m \in NAMES : ~(m < 1)
      BY DEF NAMES
    <3> QED BY <2>1, <3>1
  <2>2. CASE Folder(job, 1) \in disk
    <3>1. Folder(job, 2) \notin disk
      BY <2>2 DEF NAMES
    <3>2. 2 \in NAMES /\ \A m \in NAMES : m < 2 => m = 1
      BY DEF NAMES
    <3> QED BY <2>2, <3>1, <3>2
  <2> QED BY <2>1, <2>2
<1>2. PICK n \in NAMES : n = (CHOOSE k \in NAMES : Free(k)) /\ Free(n)
  BY <1>1
<1>3. moveIntoPlace(job) = Folder(job, n) /\ Folder(job, n) \notin disk
  BY <1>2 DEF moveIntoPlace
<1>4. Folder(job, n) \in Places
  BY DEF Folder, Places
<1> QED BY <1>3, <1>4

LEMMA CopyInv ==
  ASSUME IInv, NEW f \in Flows, Copy(f)
  PROVE  IInv'
<1>1. Types /\ RowsTold /\ TimesMeant /\ FilesOwned /\ FoldersAnswered
  BY DEF IInv
<1>2. flow \in [Flows -> Calls] /\ flow[f] \in Calls
  BY <1>1 DEF Types
<1>3. /\ flow[f].at = "copying" /\ flow[f].kind = "import"
      /\ flow[f].bundle \in Bundles
  <2>1. flow[f].at = "copying"
    BY DEF Copy, At
  <2> QED BY <1>2, <2>1, StageTellsKind DEF Calls
<1>4. CASE Goes(f, "refreshing") /\ UNCHANGED <<disk, crossed>>
  <2>1. QuietFlows
    <3>1. "refreshing" \in Phases(flow[f].kind)
      BY <1>3 DEF Phases
    <3> QED BY <1>2, <1>3, <1>4, <3>1, QuietGoes
  <2>2. UNCHANGED <<table, undeleted, sweep, pending, shown, menu>>
    BY DEF Copy
  <2>3. ScreenTypes'
    BY <1>1, <2>2 DEF Types, ScreenTypes
  <2> QED BY <1>4, <2>1, <2>2, <2>3, QuietStep
<1>5. ASSUME NEW folder \in Places, folder \notin disk, disk' = disk \union {folder},
             crossed' = (crossed \/ folder \in Doomed),
             flow' = [flow EXCEPT ![f].at = "storing", ![f].folder = folder]
      PROVE  IInv'
  <2>1. UNCHANGED <<sets, nextId, undeleted, sweep, pending, shown, menu>>
    BY DEF Copy, table
  <2>2. /\ flow' \in [Flows -> Calls]
        /\ flow'[f].at = "storing" /\ flow'[f].folder = folder
        /\ \A g \in Flows \ {f} : flow'[g] = flow[g]
    <3>1. "storing" \in Phases(flow[f].kind)
      BY <1>3 DEF Phases
    <3>2. /\ flow' \in [Flows -> Calls]
          /\ flow'[f] = [flow[f] EXCEPT !.at = "storing", !.folder = folder]
          /\ \A g \in Flows \ {f} : flow'[g] = flow[g]
      BY <1>2, <1>5, <3>1, FlowGoesWith
    <3>3. PICK c \in Calls : c = flow[f]
      BY <1>2
    <3> QED BY <3>2, <3>3 DEF Calls
  <2>3. Types'
    BY <1>1, <1>5, <2>1, <2>2 DEF Types, ScreenTypes
  <2>4. RowsTold'
    BY <1>1, <2>1 DEF RowsTold
  <2>5. TimesMeant'
    <3>1. nextId \in Nat /\ \A g \in Flows : flow[g].id \in Nat
      BY <1>1 DEF Types, Calls
    <3>2. \A g \in Flows : flow'[g].at = "retiming" => flow'[g] = flow[g]
      BY <2>2
    <3> QED BY <1>1, <2>1, <3>1, <3>2, TimesStayMeant
  <2>6. /\ f \notin Copies \union Leavers
        /\ Copies' = Copies \union {f} /\ Leavers' = Leavers
        /\ \A g \in Copies \union Leavers : flow'[g].folder = flow[g].folder
    BY <1>3, <2>2 DEF Copies, Leavers
  <2>7. Doomed' = Doomed /\ Folders(sets)' = Folders(sets) /\ LeftOver' = LeftOver
    <3>1. {flow'[g].folder : g \in Leavers} = {flow[g].folder : g \in Leavers}
      BY <2>6
    <3> QED BY <2>1, <2>6, <3>1 DEF Doomed, Leavers, Folders, LeftOver
  <2>8. FilesOwned'
    <3> SUFFICES ASSUME ~crossed'
                 PROVE  /\ \A r \in sets : r.folder \in disk' \ Doomed
                        /\ \A r, q \in sets : r.folder = q.folder => r = q
                        /\ \A g \in Copies' :
                             flow'[g].folder \in disk' \ (Doomed \union Folders(sets))
                        /\ \A g, h \in Copies' :
                             flow'[g].folder = flow'[h].folder => g = h
      BY <2>1, <2>7 DEF FilesOwned
    <3>1. ~crossed /\ folder \notin Doomed
      BY <1>5
    <3>2. /\ \A r \in sets : r.folder \in disk \ Doomed
          /\ \A r, q \in sets : r.folder = q.folder => r = q
          /\ \A g \in Copies : flow[g].folder \in disk \ (Doomed \union Folders(sets))
          /\ \A g, h \in Copies : flow[g].folder = flow[h].folder => g = h
      BY <1>1, <3>1 DEF FilesOwned
    <3>3. folder \notin Folders(sets)
      BY <1>5, <3>2 DEF Folders
    <3>4. \A g \in Copies : flow'[g].folder = flow[g].folder /\ flow[g].folder # folder
      BY <1>5, <2>6, <3>2
    <3>5. /\ flow'[f].folder = folder /\ disk \subseteq disk' /\ folder \in disk'
          /\ Copies' = Copies \union {f}
      BY <1>5, <2>2, <2>6
    <3>6. \A g \in Copies' :
            flow'[g].folder \in disk' \ (Doomed \union Folders(sets))
      BY <3>1, <3>2, <3>3, <3>4, <3>5
    <3>7. \A g, h \in Copies' : flow'[g].folder = flow'[h].folder => g = h
      BY <3>2, <3>4, <3>5
    <3> QED BY <3>2, <3>5, <3>6, <3>7
  <2>9. FoldersAnswered'
    <3>1. disk \subseteq Accounted \union LeftOver
      BY <1>1 DEF FoldersAnswered
    <3>2. Accounted \union {folder} \subseteq Accounted'
      BY <2>1, <2>2, <2>6, <2>7 DEF Accounted
    <3> QED BY <1>5, <2>7, <3>1, <3>2 DEF FoldersAnswered
  <2> QED BY <2>3, <2>4, <2>5, <2>8, <2>9 DEF IInv
<1>6. CASE /\ \E n \in NAMES : Folder(flow[f].bundle.job, n) \notin disk
           /\ LET folder == moveIntoPlace(flow[f].bundle.job)
              IN /\ disk' = disk \union {folder}
                 /\ crossed' = (crossed \/ folder \in Doomed)
                 /\ flow' = [flow EXCEPT ![f].at = "storing", ![f].folder = folder]
  <2>1. PICK job \in Jobs : job = flow[f].bundle.job
    BY <1>3 DEF Bundles
  <2>2. PICK folder : folder = moveIntoPlace(job)
    OBVIOUS
  <2>3. folder \in Places /\ folder \notin disk
    BY <1>6, <2>1, <2>2, PlaceIsFree
  <2>4. /\ disk' = disk \union {folder}
        /\ crossed' = (crossed \/ folder \in Doomed)
        /\ flow' = [flow EXCEPT ![f].at = "storing", ![f].folder = folder]
    BY <1>6, <2>1, <2>2
  <2> QED BY <1>5, <2>3, <2>4
<1> QED BY <1>4, <1>6 DEF Copy

\* A copy becomes a row, in the place of none or of the one row of its job.
LEMMA RowStored ==
  ASSUME IInv, NEW f \in Flows, flow[f].at = "storing",
         NEW n \in RowRecords, n.id = nextId, n.folder = flow[f].folder,
         n.retimed \in {None, n.lyrics},
         NEW gone \in SUBSET sets, \A r \in sets \ gone : r.job # n.job,
         sets' = (sets \ gone) \union {n}, nextId' = nextId + 1,
         flow' \in [Flows -> Calls], \A g \in Flows \ {f} : flow'[g] = flow[g],
         \/ gone = {} /\ flow'[f].at = "refreshing"
         \/ \E old \in sets : /\ gone = {old}
                              /\ flow'[f].at = "clearing"
                              /\ flow'[f].folder = old.folder,
         UNCHANGED <<disk, crossed, undeleted, sweep, pending, shown, menu>>
  PROVE  IInv'
<1>1. Types /\ RowsTold /\ TimesMeant /\ FilesOwned /\ FoldersAnswered
  BY DEF IInv
<1>2. /\ nextId \in Nat /\ sets \subseteq RowRecords /\ sets' \subseteq RowRecords
      /\ \A r \in RowRecords : r.id \in Nat
  BY <1>1 DEF Types, RowRecords
<1>3. Types'
  BY <1>1, <1>2 DEF Types, ScreenTypes
<1>4. RowsTold'
  <2>1. \A r \in sets : r.id < nextId /\ r.retimed \in {None, r.lyrics}
    BY <1>1 DEF RowsTold
  <2>2. \A r, q \in sets : (r.id = q.id \/ r.job = q.job) => r = q
    BY <1>1 DEF RowsTold
  <2>3. \A r \in sets' : r.id < nextId' /\ r.retimed \in {None, r.lyrics}
    BY <1>2, <2>1
  <2>4. \A r \in sets \ gone : r.id # n.id /\ r.job # n.job
    BY <1>2, <2>1
  <2>5. \A r, q \in sets' : (r.id = q.id \/ r.job = q.job) => r = q
    BY <2>2, <2>4
  <2> QED BY <2>3, <2>5 DEF RowsTold
<1>5. TimesMeant'
  <2>1. \A g \in Flows : flow[g].id \in Nat
    BY <1>1 DEF Types, Calls
  <2>2. \A q \in sets' : q.id < nextId => q \in sets
    BY <1>2
  <2>3. \A g \in Flows : flow'[g].at = "retiming" => flow'[g] = flow[g]
    OBVIOUS
  <2> QED BY <1>1, <1>2, <2>1, <2>2, <2>3, TimesStayMeant
<1>6. /\ f \in Copies /\ f \notin Leavers /\ Copies' = Copies \ {f}
      /\ \/ gone = {} /\ Leavers' = Leavers
         \/ gone # {} /\ Leavers' = Leavers \union {f}
      /\ \A g \in Flows \ {f} : flow'[g].folder = flow[g].folder
  BY DEF Copies, Leavers
<1>7. \A r \in gone : flow'[f].folder = r.folder
  OBVIOUS
<1>8. \A p : p \in Doomed' => p \in Doomed \/ (\E r \in gone : p = r.folder)
  <2> SUFFICES ASSUME NEW p \in Doomed', p \notin Doomed
               PROVE  \E r \in gone : p = r.folder
    OBVIOUS
  <2>1. PICK g \in Leavers' : p = flow'[g].folder
    BY DEF Doomed, Leavers
  <2>2. g \notin Leavers
    BY <1>6, <2>1 DEF Doomed, Leavers
  <2>3. g = f /\ gone # {}
    BY <1>6, <2>2
  <2> QED BY <1>7, <2>1, <2>3
<1>9. FilesOwned'
  <2> SUFFICES ASSUME ~crossed'
               PROVE  /\ \A r \in sets' : r.folder \in disk' \ Doomed'
                      /\ \A r, q \in sets' : r.folder = q.folder => r = q
                      /\ \A g \in Copies' :
                           flow'[g].folder \in disk' \ (Doomed' \union Folders(sets'))
                      /\ \A g, h \in Copies' : flow'[g].folder = flow'[h].folder => g = h
    BY DEF FilesOwned
  <2>1. /\ \A r \in sets : r.folder \in disk \ Doomed
        /\ \A r, q \in sets : r.folder = q.folder => r = q
        /\ \A g \in Copies : flow[g].folder \in disk \ (Doomed \union Folders(sets))
        /\ \A g, h \in Copies : flow[g].folder = flow[h].folder => g = h
    BY <1>1 DEF FilesOwned
  <2>2. /\ \A r \in sets : r.folder \in Folders(sets)
        /\ \A p \in Folders(sets') : \E r \in sets' : p = r.folder
    BY DEF Folders
  <2>3. n.folder \in disk \ Doomed /\ \A r \in sets : r.folder # n.folder
    BY <1>6, <2>1, <2>2
  <2>4. \A r \in sets' : r.folder \in disk' \ Doomed'
    <3> SUFFICES ASSUME NEW r \in sets' PROVE r.folder \in disk' \ Doomed'
      OBVIOUS
    <3>1. r.folder \in disk \ Doomed
      BY <2>1, <2>3
    <3>2. \A q \in gone : r.folder # q.folder
      BY <2>1, <2>3
    <3> QED BY <1>8, <3>1, <3>2
  <2>5. \A r, q \in sets' : r.folder = q.folder => r = q
    BY <2>1, <2>3
  <2>6. ASSUME NEW g \in Copies'
        PROVE  flow'[g].folder \in disk' \ (Doomed' \union Folders(sets'))
    <3>1. /\ g \in Copies /\ g # f /\ flow'[g].folder = flow[g].folder
      BY <1>6 DEF Copies
    <3>2. /\ flow[g].folder \in disk \ (Doomed \union Folders(sets))
          /\ flow[g].folder # n.folder
      BY <1>6, <2>1, <3>1
    <3>3. \A r \in sets \union {n} : flow[g].folder # r.folder
      BY <2>2, <3>2
    <3>4. flow[g].folder \notin Folders(sets')
      BY <2>2, <3>3
    <3>5. flow[g].folder \notin Doomed'
      BY <1>8, <3>2, <3>3
    <3> QED BY <3>1, <3>2, <3>4, <3>5
  <2>7. \A g, h \in Copies' : flow'[g].folder = flow'[h].folder => g = h
    BY <1>6, <2>1 DEF Copies
  <2> QED BY <2>4, <2>5, <2>6, <2>7
<1>10. FoldersAnswered'
  <2>1. disk \subseteq Accounted \union LeftOver
    BY <1>1 DEF FoldersAnswered
  <2>2. Accounted \subseteq Accounted'
    <3> SUFFICES ASSUME NEW p \in Accounted PROVE p \in Accounted'
      OBVIOUS
    <3>1. CASE p \in Folders(sets)
      <4>1. PICK r \in sets : p = r.folder
        BY <3>1 DEF Folders
      <4>2. CASE r \in gone
        BY <1>6, <1>7, <4>1, <4>2 DEF Accounted
      <4>3. CASE r \notin gone
        BY <4>1, <4>3 DEF Accounted, Folders
      <4> QED BY <4>2, <4>3
    <3>2. CASE p \in undeleted
      BY <3>2 DEF Accounted
    <3>3. ASSUME NEW g \in Copies \union Leavers, p = flow[g].folder
          PROVE  p \in Accounted'
      <4>1. CASE g = f
        <5>1. p = n.folder /\ n \in sets'
          BY <3>3, <4>1
        <5> QED BY <5>1 DEF Accounted, Folders
      <4>2. CASE g # f
        <5>1. g \in Copies' \union Leavers' /\ p = flow'[g].folder
          BY <1>6, <3>3, <4>2 DEF Copies, Leavers
        <5> QED BY <5>1 DEF Accounted
      <4> QED BY <4>1, <4>2
    <3> QED BY <3>1, <3>2, <3>3 DEF Accounted
  <2>3. LeftOver' = LeftOver
    BY DEF LeftOver
  <2> QED BY <2>1, <2>2, <2>3 DEF FoldersAnswered
<1> QED BY <1>3, <1>4, <1>5, <1>9, <1>10 DEF IInv

\* The rows a bundle is stored as.
LEMMA NewRows ==
  ASSUME nextId \in Nat, NEW b \in Bundles, NEW folder \in Places, NEW old \in RowRecords,
         old.retimed \in {None, old.lyrics}
  PROVE  \A n \in {insertStemBundle(b, folder), replaceStemBundle(old, b, folder)} :
           /\ n \in RowRecords /\ n.id = nextId /\ n.job = b.job /\ n.folder = folder
           /\ n.retimed \in {None, n.lyrics}
<1>1. PICK i : i = insertStemBundle(b, folder)
  OBVIOUS
<1>2. /\ i \in RowRecords /\ i.id = nextId /\ i.job = b.job /\ i.lyrics = b.lyrics
      /\ i.folder = folder /\ i.retimed = None
  BY <1>1 DEF insertStemBundle, RowRecords, Bundles
<1>3. PICK times \in Lyrics \union {None} : times = retainedRetime(old, b)
  BY DEF retainedRetime, RowRecords
<1>4. times \in {None, b.lyrics}
  BY <1>3 DEF retainedRetime
<1>5. replaceStemBundle(old, b, folder)
        = [[i EXCEPT !.renamed = old.renamed] EXCEPT !.retimed = times]
  BY <1>1, <1>3 DEF replaceStemBundle, applyUserNames
<1>6. PICK n : n = [[i EXCEPT !.renamed = old.renamed] EXCEPT !.retimed = times]
  OBVIOUS
<1>7. old.renamed \in BOOLEAN
  BY DEF RowRecords
<1>8. /\ n \in RowRecords /\ n.id = nextId /\ n.job = b.job /\ n.lyrics = b.lyrics
      /\ n.folder = folder /\ n.retimed = times
  BY <1>2, <1>6, <1>7 DEF RowRecords
<1> QED BY <1>1, <1>2, <1>4, <1>5, <1>6, <1>8

LEMMA StoreInv ==
  ASSUME IInv, NEW f \in Flows, Store(f)
  PROVE  IInv'
<1>1. Types /\ RowsTold
  BY DEF IInv
<1>2. /\ flow \in [Flows -> Calls] /\ flow[f] \in Calls /\ sets \subseteq RowRecords
      /\ nextId \in Nat
  BY <1>1 DEF Types
<1>3. flow[f].at = "storing" /\ flow[f].kind = "import"
  BY <1>2, StageTellsKind DEF Store, At
<1>4. PICK b \in Bundles : b = flow[f].bundle
  BY <1>2, <1>3 DEF Calls
<1>5. PICK folder \in Places : folder = flow[f].folder
  BY <1>2 DEF Calls
<1>6. {"refreshing", "undoing", "clearing"} \subseteq Phases(flow[f].kind)
  BY <1>3 DEF Phases
<1>7. UNCHANGED <<disk, sweep, crossed, undeleted, pending, shown, menu>>
  BY DEF Store
<1>8. CASE /\ findStemSetByJobId(b.job) = {}
           /\ sets' = sets \union {insertStemBundle(b, folder)} /\ nextId' = nextId + 1
           /\ Goes(f, "refreshing")
  <2>1. PICK n : n = insertStemBundle(b, folder)
    OBVIOUS
  <2>2. /\ n \in RowRecords /\ n.id = nextId /\ n.job = b.job /\ n.folder = folder
        /\ n.retimed \in {None, n.lyrics}
    BY <1>2, <2>1 DEF insertStemBundle, RowRecords, Bundles
  <2>3. \A r \in sets \ {} : r.job # n.job
    BY <1>8, <2>2 DEF findStemSetByJobId
  <2>4. /\ flow' \in [Flows -> Calls]
        /\ flow'[f] = [flow[f] EXCEPT !.at = "refreshing"]
        /\ \A g \in Flows \ {f} : flow'[g] = flow[g]
    BY <1>2, <1>6, <1>8, FlowGoes
  <2>5. flow'[f].at = "refreshing"
    BY <1>2, <2>4 DEF Calls
  <2>6. sets' = (sets \ {}) \union {n}
    BY <1>8, <2>1
  <2>7. n.folder = flow[f].folder /\ nextId' = nextId + 1 /\ {} \in SUBSET sets
    BY <1>5, <1>8, <2>2
  <2> QED BY <1>3, <1>7, <2>2, <2>3, <2>4, <2>5, <2>6, <2>7, RowStored
<1>9. ASSUME NEW old \in findStemSetByJobId(b.job),
             sets' = (sets \ {old}) \union {replaceStemBundle(old, b, folder)},
             flow' = [flow EXCEPT ![f].at = "clearing", ![f].folder = old.folder],
             nextId' = nextId + 1
      PROVE  IInv'
  <2>1. old \in sets /\ old \in RowRecords /\ old.job = b.job
    BY <1>2 DEF findStemSetByJobId
  <2>2. PICK n : n = replaceStemBundle(old, b, folder)
    OBVIOUS
  <2>3. /\ n \in RowRecords /\ n.id = nextId /\ n.job = b.job /\ n.folder = folder
        /\ n.retimed \in {None, n.lyrics}
    <3>1. old.retimed \in {None, old.lyrics}
      BY <1>1, <2>1 DEF RowsTold
    <3> QED BY <1>2, <2>1, <2>2, <3>1, NewRows
  <2>4. \A r \in sets \ {old} : r.job # n.job
    BY <1>1, <2>1, <2>3 DEF RowsTold
  <2>5. PICK left \in Places : left = old.folder
    BY <2>1 DEF RowRecords
  <2>6. /\ flow' \in [Flows -> Calls]
        /\ flow'[f] = [flow[f] EXCEPT !.at = "clearing", !.folder = left]
        /\ \A g \in Flows \ {f} : flow'[g] = flow[g]
    <3>1. flow' = [flow EXCEPT ![f].at = "clearing", ![f].folder = left]
      BY <1>9, <2>5
    <3> QED BY <1>2, <1>6, <3>1, FlowGoesWith
  <2>7. flow'[f].at = "clearing" /\ flow'[f].folder = old.folder
    BY <1>2, <2>5, <2>6 DEF Calls
  <2>8. sets' = (sets \ {old}) \union {n}
    BY <1>9, <2>2
  <2>9. n.folder = flow[f].folder /\ {old} \in SUBSET sets
    BY <1>5, <2>1, <2>3
  <2>10. \E q \in sets : /\ {old} = {q}
                         /\ flow'[f].at = "clearing" /\ flow'[f].folder = q.folder
    BY <2>1, <2>7
  <2> QED BY <1>3, <1>7, <1>9, <2>3, <2>4, <2>6, <2>8, <2>9, <2>10, RowStored
<1>10. CASE Goes(f, "undoing") /\ UNCHANGED table
  <2>1. QuietFlows
    BY <1>2, <1>3, <1>6, <1>10, QuietGoes
  <2>2. ScreenTypes'
    BY <1>1, <1>7 DEF Types, ScreenTypes
  <2> QED BY <1>7, <1>10, <2>1, <2>2, QuietStep
<1> QED
  <2>1. \/ /\ findStemSetByJobId(b.job) = {}
           /\ sets' = sets \union {insertStemBundle(b, folder)} /\ nextId' = nextId + 1
           /\ Goes(f, "refreshing")
        \/ /\ nextId' = nextId + 1
           /\ \E old \in findStemSetByJobId(b.job) :
                /\ sets' = (sets \ {old}) \union {replaceStemBundle(old, b, folder)}
                /\ flow' = [flow EXCEPT ![f].at = "clearing", ![f].folder = old.folder]
        \/ Goes(f, "undoing") /\ UNCHANGED table
    BY <1>4, <1>5 DEF Store
  <2> QED BY <1>8, <1>9, <1>10, <2>1

-----------------------------------------------------------------------------
(* Folders that go.                                                            *)

\* A flow lets go of its folder: it is off the disk, or known to be left on it.
LEMMA LetsGo ==
  ASSUME IInv, NEW f \in Copies \union Leavers, Removed(flow[f].folder),
         flow' \in [Flows -> Calls], \A g \in Flows \ {f} : flow'[g] = flow[g],
         flow'[f].at \notin {"storing", "undoing", "clearing", "listing", "retiming"},
         UNCHANGED <<table, crossed, sweep, pending, shown, menu>>
  PROVE  IInv'
<1>1. Types /\ RowsTold /\ TimesMeant /\ FilesOwned /\ FoldersAnswered
  BY DEF IInv
<1>2. sets' = sets /\ nextId' = nextId
  BY DEF table
<1>3. PICK p \in Places : p = flow[f].folder
  <2>1. f \in Flows
    BY DEF Copies, Leavers
  <2> QED BY <1>1, <2>1 DEF Types, Calls
<1>4. \/ disk' = disk \ {p} /\ undeleted' = undeleted
      \/ undeleted' = undeleted \union {p} /\ disk' = disk
  BY <1>3 DEF Removed
<1>5. Types'
  BY <1>1, <1>2, <1>4 DEF Types, ScreenTypes
<1>6. RowsTold'
  BY <1>1, <1>2 DEF RowsTold
<1>7. TimesMeant'
  <2>1. nextId \in Nat /\ \A g \in Flows : flow[g].id \in Nat
    BY <1>1 DEF Types, Calls
  <2>2. \A g \in Flows : flow'[g].at = "retiming" => flow'[g] = flow[g]
    OBVIOUS
  <2> QED BY <1>1, <1>2, <2>1, <2>2, TimesStayMeant
<1>8. /\ Copies' = Copies \ {f} /\ Leavers' = Leavers \ {f}
      /\ \A g \in Copies' \union Leavers' : flow'[g].folder = flow[g].folder
  BY DEF Copies, Leavers
<1>9. Doomed' \subseteq Doomed
  <2> SUFFICES ASSUME NEW q \in Doomed' PROVE q \in Doomed
    OBVIOUS
  <2>1. CASE q \in sweep.orphans
    BY <2>1 DEF Doomed
  <2>2. ASSUME NEW g \in Leavers', q = flow'[g].folder
        PROVE  q \in Doomed
    <3>1. g \in Leavers /\ q = flow[g].folder
      BY <1>8, <2>2
    <3> QED BY <3>1 DEF Doomed, Leavers
  <2> QED BY <2>1, <2>2 DEF Doomed, Leavers
<1>10. FilesOwned'
  <2> SUFFICES ASSUME ~crossed'
               PROVE  /\ \A r \in sets : r.folder \in disk' \ Doomed'
                      /\ \A r, q \in sets : r.folder = q.folder => r = q
                      /\ \A g \in Copies' :
                           flow'[g].folder \in disk' \ (Doomed' \union Folders(sets))
                      /\ \A g, h \in Copies' : flow'[g].folder = flow'[h].folder => g = h
    BY <1>2 DEF FilesOwned
  <2>1. /\ \A r \in sets : r.folder \in disk \ Doomed
        /\ \A r, q \in sets : r.folder = q.folder => r = q
        /\ \A g \in Copies : flow[g].folder \in disk \ (Doomed \union Folders(sets))
        /\ \A g, h \in Copies : flow[g].folder = flow[h].folder => g = h
    BY <1>1 DEF FilesOwned
  <2>2. f \in Leavers => p \in Doomed
    BY <1>3 DEF Doomed, Leavers
  <2>3. \A r \in sets : r.folder # p
    BY <1>3, <2>1, <2>2 DEF Folders
  <2>4. \A g \in Copies \ {f} : flow[g].folder # p
    BY <1>3, <2>1, <2>2
  <2>5. disk \ {p} \subseteq disk'
    BY <1>4
  <2>6. \A r \in sets : r.folder \in disk' \ Doomed'
    BY <1>9, <2>1, <2>3, <2>5
  <2>7. \A g \in Copies' : flow'[g].folder \in disk' \ (Doomed' \union Folders(sets))
    BY <1>8, <1>9, <2>1, <2>4, <2>5
  <2> QED BY <1>8, <2>1, <2>6, <2>7
<1>11. FoldersAnswered'
  <2>1. disk \subseteq Accounted \union LeftOver
    BY <1>1 DEF FoldersAnswered
  <2>2. Accounted \subseteq Accounted' \union {p}
    <3> SUFFICES ASSUME NEW q \in Accounted, q # p PROVE q \in Accounted'
      OBVIOUS
    <3>1. CASE q \in Folders(sets)
      BY <1>2, <3>1 DEF Accounted
    <3>2. CASE q \in undeleted
      BY <1>4, <3>2 DEF Accounted
    <3>3. ASSUME NEW g \in Copies \union Leavers, q = flow[g].folder
          PROVE  q \in Accounted'
      <4>1. g \in Copies' \union Leavers' /\ q = flow'[g].folder
        BY <1>3, <1>8, <3>3
      <4> QED BY <4>1 DEF Accounted
    <3> QED BY <3>1, <3>2, <3>3 DEF Accounted
  <2>3. p \in Accounted' \/ p \notin disk'
    BY <1>4 DEF Accounted
  <2>4. LeftOver' = LeftOver /\ disk' \subseteq disk
    BY <1>4 DEF LeftOver
  <2> QED BY <2>1, <2>2, <2>3, <2>4 DEF FoldersAnswered
<1> QED BY <1>5, <1>6, <1>7, <1>10, <1>11 DEF IInv

LEMMA UndoInv ==
  ASSUME IInv, NEW f \in Flows, Undo(f)
  PROVE  IInv'
<1>1. flow \in [Flows -> Calls] /\ flow[f] \in Calls
  BY DEF IInv, Types
<1>2. flow[f].at = "undoing" /\ flow[f].kind = "import"
  BY <1>1, StageTellsKind DEF Undo, At
<1>3. "refreshing" \in Phases(flow[f].kind)
  BY <1>2 DEF Phases
<1>4. /\ flow' \in [Flows -> Calls]
      /\ flow'[f] = [flow[f] EXCEPT !.at = "refreshing"]
      /\ \A g \in Flows \ {f} : flow'[g] = flow[g]
  BY <1>1, <1>3, FlowGoes DEF Undo
<1>5. flow'[f].at = "refreshing" /\ f \in Copies
  BY <1>1, <1>2, <1>4 DEF Calls, Copies
<1>6. /\ Removed(flow[f].folder)
      /\ UNCHANGED <<table, crossed, sweep, pending, shown, menu>>
  BY DEF Undo, screen
<1> QED BY <1>4, <1>5, <1>6, LetsGo

LEMMA ClearInv ==
  ASSUME IInv, NEW f \in Flows, Clear(f)
  PROVE  IInv'
<1>1. flow \in [Flows -> Calls] /\ flow[f] \in Calls
  BY DEF IInv, Types
<1>2. flow[f].at = "clearing"
  BY DEF Clear, At
<1>3. /\ flow' \in [Flows -> Calls]
      /\ flow'[f].at \in {"refreshing", "done"}
      /\ \A g \in Flows \ {f} : flow'[g] = flow[g]
  <2>1. CASE flow[f].kind = "import"
    <3>1. "refreshing" \in Phases(flow[f].kind) /\ Goes(f, "refreshing")
      BY <2>1 DEF Phases, Clear
    <3>2. /\ flow' \in [Flows -> Calls]
          /\ flow'[f] = [flow[f] EXCEPT !.at = "refreshing"]
          /\ \A g \in Flows \ {f} : flow'[g] = flow[g]
      BY <1>1, <3>1, FlowGoes
    <3> QED BY <1>1, <3>2 DEF Calls
  <2>2. CASE flow[f].kind # "import"
    <3>1. Ends(f)
      BY <2>2 DEF Clear
    <3>2. NoFlow.at = "done"
      BY DEF NoFlow
    <3> QED BY <1>1, <3>1, <3>2, FlowEnds
  <2> QED BY <2>1, <2>2
<1>4. f \in Leavers
  BY <1>2 DEF Leavers
<1>5. /\ Removed(flow[f].folder)
      /\ UNCHANGED <<table, crossed, sweep, pending, shown, menu>>
  BY DEF Clear, screen
<1> QED BY <1>3, <1>4, <1>5, LetsGo

LEMMA DeleteInv ==
  ASSUME IInv, NEW f \in Flows, Delete(f)
  PROVE  IInv'
<1>1. Types /\ RowsTold /\ TimesMeant /\ FilesOwned /\ FoldersAnswered
  BY DEF IInv
<1>2. /\ flow \in [Flows -> Calls] /\ flow[f] \in Calls /\ sets \subseteq RowRecords
  BY <1>1 DEF Types
<1>3. flow[f].at = "deleting" /\ flow[f].kind = "delete"
  BY <1>2, StageTellsKind DEF Delete, At
<1>4. {"refreshing", "listing"} \subseteq Phases(flow[f].kind)
  BY <1>3 DEF Phases
<1>5. UNCHANGED <<nextId, disk, sweep, crossed, undeleted, pending, shown, menu>>
  BY DEF Delete
<1>6. CASE sets' = sets /\ (Goes(f, "refreshing") \/ Ends(f))
  <2>1. QuietFlows
    BY <1>2, <1>3, <1>4, <1>6, QuietGoes, QuietEnds
  <2>2. ScreenTypes'
    BY <1>1, <1>5 DEF Types, ScreenTypes
  <2> QED BY <1>5, <1>6, <2>1, <2>2, QuietStep DEF table
<1>7. ASSUME NEW r \in sets, sets' = sets \ {r},
             flow' = [flow EXCEPT ![f].at = "listing", ![f].folder = r.folder]
      PROVE  IInv'
  <2>1. PICK left \in Places : left = r.folder
    BY <1>2 DEF RowRecords
  <2>2. /\ flow' \in [Flows -> Calls]
        /\ flow'[f] = [flow[f] EXCEPT !.at = "listing", !.folder = left]
        /\ \A g \in Flows \ {f} : flow'[g] = flow[g]
    <3>1. flow' = [flow EXCEPT ![f].at = "listing", ![f].folder = left]
      BY <1>7, <2>1
    <3> QED BY <1>2, <1>4, <3>1, FlowGoesWith
  <2>3. flow'[f].at = "listing" /\ flow'[f].folder = left
    BY <1>2, <2>2 DEF Calls
  <2>4. Types'
    BY <1>1, <1>5, <1>7, <2>2 DEF Types, ScreenTypes
  <2>5. RowsTold'
    BY <1>1, <1>5, <1>7 DEF RowsTold
  <2>6. TimesMeant'
    <3>1. nextId \in Nat /\ \A g \in Flows : flow[g].id \in Nat
      BY <1>1 DEF Types, Calls
    <3>2. \A g \in Flows : flow'[g].at = "retiming" => flow'[g] = flow[g]
      BY <2>2, <2>3
    <3>3. nextId' = nextId /\ \A q \in sets' : q \in sets
      BY <1>5, <1>7
    <3> QED BY <1>1, <3>1, <3>2, <3>3, TimesStayMeant
  <2>7. /\ f \notin Copies \union Leavers
        /\ Copies' = Copies /\ Leavers' = Leavers \union {f}
        /\ \A g \in Copies \union Leavers : flow'[g].folder = flow[g].folder
    BY <1>3, <2>2, <2>3 DEF Copies, Leavers
  <2>8. \A p \in Doomed' : p \in Doomed \/ p = left
    BY <1>5, <2>3, <2>7 DEF Doomed, Leavers
  <2>9. FilesOwned'
    <3> SUFFICES ASSUME ~crossed'
                 PROVE  /\ \A q \in sets' : q.folder \in disk \ Doomed'
                        /\ \A q, s \in sets' : q.folder = s.folder => q = s
                        /\ \A g \in Copies' :
                             flow'[g].folder \in disk \ (Doomed' \union Folders(sets'))
                        /\ \A g, h \in Copies' :
                             flow'[g].folder = flow'[h].folder => g = h
      BY <1>5 DEF FilesOwned
    <3>1. /\ \A q \in sets : q.folder \in disk \ Doomed
          /\ \A q, s \in sets : q.folder = s.folder => q = s
          /\ \A g \in Copies : flow[g].folder \in disk \ (Doomed \union Folders(sets))
          /\ \A g, h \in Copies : flow[g].folder = flow[h].folder => g = h
      BY <1>1, <1>5 DEF FilesOwned
    <3>2. left \in Folders(sets) /\ Folders(sets') \subseteq Folders(sets)
      BY <1>7, <2>1 DEF Folders
    <3>3. \A q \in sets' : q.folder \in disk \ Doomed'
      BY <1>7, <2>1, <2>8, <3>1
    <3>4. \A g \in Copies :
            flow[g].folder \in disk \ (Doomed' \union Folders(sets'))
      BY <2>8, <3>1, <3>2
    <3>5. /\ \A q, s \in sets' : q.folder = s.folder => q = s
          /\ \A g, h \in Copies' : flow'[g].folder = flow'[h].folder => g = h
      <4>1. \A q \in sets' : q \in sets
        BY <1>7
      <4>2. \A g \in Copies' : g \in Copies /\ flow'[g].folder = flow[g].folder
        BY <2>7
      <4> QED BY <3>1, <4>1, <4>2
    <3> QED BY <2>7, <3>3, <3>4, <3>5
  <2>10. FoldersAnswered'
    <3>1. disk \subseteq Accounted \union LeftOver
      BY <1>1 DEF FoldersAnswered
    <3>2. Folders(sets) \subseteq Folders(sets') \union {left}
      BY <1>7, <2>1 DEF Folders
    <3>3. left \in Accounted'
      BY <2>3, <2>7 DEF Accounted
    <3>4. \A g \in Copies \union Leavers : flow[g].folder \in Accounted'
      BY <2>7 DEF Accounted
    <3>5. Folders(sets') \union undeleted \subseteq Accounted'
      BY <1>5 DEF Accounted
    <3>6. Accounted \subseteq Accounted'
      BY <3>2, <3>3, <3>4, <3>5 DEF Accounted
    <3>7. LeftOver' = LeftOver
      BY <1>5 DEF LeftOver
    <3> QED BY <1>5, <3>1, <3>6, <3>7 DEF FoldersAnswered
  <2> QED BY <2>4, <2>5, <2>6, <2>9, <2>10 DEF IInv
<1> QED
  <2> DEFINE found == {r \in sets : r.id = flow[f].id}
  <2>1. \/ Ends(f) /\ sets' = sets
        \/ found = {} /\ sets' = sets \ found /\ Goes(f, "refreshing")
        \/ /\ sets' = sets \ found
           /\ \E r \in found :
                flow' = [flow EXCEPT ![f].at = "listing", ![f].folder = r.folder]
    BY DEF Delete
  <2>2. CASE found = {} /\ sets' = sets \ found /\ Goes(f, "refreshing")
    BY <1>6, <2>2
  <2>3. ASSUME NEW r \in found, sets' = sets \ found,
               flow' = [flow EXCEPT ![f].at = "listing", ![f].folder = r.folder]
        PROVE  IInv'
    <3>1. found = {r} /\ r \in sets
      BY <1>1, <2>3 DEF RowsTold
    <3> HIDE DEF found
    <3> QED BY <1>7, <2>3, <3>1
  <2> HIDE DEF found
  <2> QED BY <1>6, <2>1, <2>2, <2>3

-----------------------------------------------------------------------------
(* Rows that change.                                                           *)

\* Rows are changed in place: not what tells them, nor their lyrics and folder, and
\* their times only to be those of their lyrics.
LEMMA RowsEdited ==
  ASSUME IInv, QuietFlows, NEW edit,
         \A r \in sets : /\ edit[r] \in RowRecords /\ edit[r].id = r.id /\ edit[r].job = r.job
                         /\ edit[r].lyrics = r.lyrics /\ edit[r].folder = r.folder
                         /\ edit[r].retimed \in {r.retimed, r.lyrics},
         \A r \in sets : edit[r] \in sets',
         \A q \in sets' : \E r \in sets : q = edit[r],
         UNCHANGED <<nextId, disk, crossed, undeleted, sweep, pending, shown, menu>>
  PROVE  IInv'
<1>1. Types /\ RowsTold /\ TimesMeant /\ FilesOwned /\ FoldersAnswered
  BY DEF IInv
<1>2. flow' \in [Flows -> Calls]
  BY DEF QuietFlows
<1>3. \A q \in sets' : \E r \in sets : q = edit[r]
  OBVIOUS
<1>4. Types'
  <2>1. sets' \subseteq RowRecords
    BY <1>3
  <2> QED BY <1>1, <1>2, <2>1 DEF Types, ScreenTypes
<1>5. RowsTold'
  <2>1. \A r \in sets : r.id < nextId /\ r.retimed \in {None, r.lyrics}
    BY <1>1 DEF RowsTold
  <2>2. \A r, q \in sets : (r.id = q.id \/ r.job = q.job) => r = q
    BY <1>1 DEF RowsTold
  <2>3. \A q \in sets' : q.id < nextId' /\ q.retimed \in {None, q.lyrics}
    <3> SUFFICES ASSUME NEW q \in sets'
                 PROVE  q.id < nextId' /\ q.retimed \in {None, q.lyrics}
      OBVIOUS
    <3>1. PICK r \in sets : q = edit[r]
      BY <1>3
    <3> QED BY <2>1, <3>1
  <2>4. \A q, s \in sets' : (q.id = s.id \/ q.job = s.job) => q = s
    <3> SUFFICES ASSUME NEW q \in sets', NEW s \in sets', q.id = s.id \/ q.job = s.job
                 PROVE  q = s
      OBVIOUS
    <3>1. PICK r \in sets, t \in sets : q = edit[r] /\ s = edit[t]
      BY <1>3
    <3>2. r.id = t.id \/ r.job = t.job
      BY <3>1
    <3> QED BY <2>2, <3>1, <3>2
  <2> QED BY <2>3, <2>4 DEF RowsTold
<1>6. TimesMeant'
  <2>1. nextId \in Nat /\ \A g \in Flows : flow[g].id \in Nat
    BY <1>1 DEF Types, Calls
  <2>2. \A g \in Flows : flow'[g].at = "retiming" => flow'[g] = flow[g]
    BY DEF QuietFlows
  <2>3. \A q \in sets' : \E r \in sets : r.id = q.id /\ r.lyrics = q.lyrics
    BY <1>3
  <2> QED BY <1>1, <2>1, <2>2, <2>3, TimesStayMeant
<1>7. Folders(sets') = Folders(sets)
  <2>1. \A p \in Folders(sets') : p \in Folders(sets)
    <3> SUFFICES ASSUME NEW q \in sets' PROVE q.folder \in Folders(sets)
      BY DEF Folders
    <3>1. PICK r \in sets : q = edit[r]
      BY <1>3
    <3> QED BY <3>1 DEF Folders
  <2>2. \A p \in Folders(sets) : p \in Folders(sets')
    <3> SUFFICES ASSUME NEW r \in sets PROVE r.folder \in Folders(sets')
      BY DEF Folders
    <3>1. edit[r] \in sets' /\ edit[r].folder = r.folder
      OBVIOUS
    <3> QED BY <3>1 DEF Folders
  <2> QED BY <2>1, <2>2
<1>8. /\ Copies' \union Leavers' = Copies \union Leavers
      /\ \A g \in Copies : g \in Copies' /\ flow'[g].folder = flow[g].folder
      /\ \A g \in Copies' : g \in Copies
      /\ \A g \in Leavers : g \in Leavers' /\ flow'[g].folder = flow[g].folder
      /\ \A g \in Leavers' : g \in Leavers
  BY DEF QuietFlows, Copies, Leavers
<1>9. Doomed' = Doomed
  <2>1. {flow'[g].folder : g \in Leavers'} = {flow[g].folder : g \in Leavers}
    BY <1>8
  <2> QED BY <2>1 DEF Doomed, Leavers
<1>10. FilesOwned'
  <2> SUFFICES ASSUME ~crossed'
               PROVE  /\ \A q \in sets' : q.folder \in disk \ Doomed
                      /\ \A q, s \in sets' : q.folder = s.folder => q = s
                      /\ \A g \in Copies' :
                           flow'[g].folder \in disk \ (Doomed \union Folders(sets))
                      /\ \A g, h \in Copies' : flow'[g].folder = flow'[h].folder => g = h
    BY <1>7, <1>9 DEF FilesOwned
  <2>1. /\ \A r \in sets : r.folder \in disk \ Doomed
        /\ \A r, q \in sets : r.folder = q.folder => r = q
        /\ \A g \in Copies : flow[g].folder \in disk \ (Doomed \union Folders(sets))
        /\ \A g, h \in Copies : flow[g].folder = flow[h].folder => g = h
    BY <1>1 DEF FilesOwned
  <2>2. \A q \in sets' : q.folder \in disk \ Doomed
    <3> SUFFICES ASSUME NEW q \in sets' PROVE q.folder \in disk \ Doomed
      OBVIOUS
    <3>1. PICK r \in sets : q = edit[r]
      BY <1>3
    <3> QED BY <2>1, <3>1
  <2>3. \A q, s \in sets' : q.folder = s.folder => q = s
    <3> SUFFICES ASSUME NEW q \in sets', NEW s \in sets', q.folder = s.folder
                 PROVE  q = s
      OBVIOUS
    <3>1. PICK r \in sets, t \in sets : q = edit[r] /\ s = edit[t]
      BY <1>3
    <3>2. r.folder = t.folder
      BY <3>1
    <3> QED BY <2>1, <3>1, <3>2
  <2> QED BY <1>8, <2>1, <2>2, <2>3
<1>11. FoldersAnswered'
  <2>1. {flow'[g].folder : g \in Copies' \union Leavers'}
          = {flow[g].folder : g \in Copies \union Leavers}
    BY <1>8
  <2>2. Accounted' = Accounted /\ LeftOver' = LeftOver
    BY <1>7, <2>1 DEF Accounted, LeftOver
  <2> QED BY <1>1, <2>2 DEF FoldersAnswered
<1> QED BY <1>4, <1>5, <1>6, <1>10, <1>11 DEF IInv

LEMMA RenameInv ==
  ASSUME IInv, NEW f \in Flows, Rename(f)
  PROVE  IInv'
<1>1. Types /\ flow \in [Flows -> Calls] /\ flow[f] \in Calls /\ sets \subseteq RowRecords
  BY DEF IInv, Types
<1>2. flow[f].at = "renaming" /\ flow[f].kind = "rename"
  BY <1>1, StageTellsKind DEF Rename, At
<1>3. UNCHANGED <<nextId, disk, sweep, crossed, undeleted, pending, shown, menu>>
  BY DEF Rename
<1>4. QuietFlows
  <2>1. "refreshing" \in Phases(flow[f].kind)
    BY <1>2 DEF Phases
  <2>2. Goes(f, "refreshing") \/ Ends(f)
    BY DEF Rename
  <2> QED BY <1>1, <1>2, <2>1, <2>2, QuietGoes, QuietEnds
<1>5. CASE sets' = sets
  <2>1. ScreenTypes'
    BY <1>1, <1>3 DEF Types, ScreenTypes
  <2> QED BY <1>3, <1>4, <1>5, <2>1, QuietStep DEF table
<1>6. CASE sets' = {IF r.id = flow[f].id THEN [r EXCEPT !.renamed = TRUE] ELSE r :
                      r \in sets}
  <2>1. PICK edit : edit = [r \in sets |-> IF r.id = flow[f].id
                                           THEN [r EXCEPT !.renamed = TRUE] ELSE r]
    OBVIOUS
  <2>2. \A r \in sets : edit[r] = IF r.id = flow[f].id
                                  THEN [r EXCEPT !.renamed = TRUE] ELSE r
    BY <2>1
  <2>3. \A r \in sets : /\ edit[r] \in RowRecords /\ edit[r].id = r.id /\ edit[r].job = r.job
                        /\ edit[r].lyrics = r.lyrics /\ edit[r].folder = r.folder
                        /\ edit[r].retimed = r.retimed
    <3> SUFFICES ASSUME NEW r \in sets
                 PROVE  /\ edit[r] \in RowRecords /\ edit[r].id = r.id /\ edit[r].job = r.job
                        /\ edit[r].lyrics = r.lyrics /\ edit[r].folder = r.folder
                        /\ edit[r].retimed = r.retimed
      OBVIOUS
    <3>1. r \in RowRecords
      BY <1>1
    <3> QED BY <2>2, <3>1 DEF RowRecords
  <2>4. \A r \in sets : edit[r] \in sets'
    BY <1>6, <2>2, Zenon
  <2>5. ASSUME NEW q \in sets' PROVE \E r \in sets : q = edit[r]
    <3>1. PICK r \in sets : q = IF r.id = flow[f].id THEN [r EXCEPT !.renamed = TRUE]
                                                     ELSE r
      BY <1>6, Zenon
    <3> QED BY <2>2, <3>1, Zenon
  <2> QED BY <1>3, <1>4, <2>3, <2>4, <2>5, RowsEdited
<1> QED BY <1>5, <1>6 DEF Rename

LEMMA RetimeInv ==
  ASSUME IInv, NEW f \in Flows, Retime(f)
  PROVE  IInv'
<1>1. /\ Types /\ TimesMeant /\ flow \in [Flows -> Calls] /\ flow[f] \in Calls
      /\ sets \subseteq RowRecords
  BY DEF IInv, Types
<1>2. flow[f].at = "retiming" /\ flow[f].kind = "times" /\ flow[f].bundle \in Bundles
  <2>1. flow[f].at = "retiming"
    BY DEF Retime, At
  <2> QED BY <1>1, <2>1, StageTellsKind DEF Calls
<1>3. UNCHANGED <<nextId, disk, sweep, crossed, undeleted, pending, shown, menu>>
  BY DEF Retime, screen
<1>4. QuietFlows
  BY <1>1, <1>2, QuietEnds DEF Retime
<1>5. PICK times \in Lyrics : times = flow[f].bundle.lyrics
  BY <1>2 DEF Bundles
<1>6. \A r \in sets : r.id = flow[f].id => r.lyrics = times
  BY <1>1, <1>2, <1>5 DEF TimesMeant, At
<1>7. PICK edit : edit = [r \in sets |-> IF r.id = flow[f].id
                                         THEN [r EXCEPT !.retimed = times] ELSE r]
  OBVIOUS
<1>8. \A r \in sets : edit[r] = IF r.id = flow[f].id
                                THEN [r EXCEPT !.retimed = times] ELSE r
  BY <1>7
<1>9. \A r \in sets : /\ edit[r] \in RowRecords /\ edit[r].id = r.id /\ edit[r].job = r.job
                      /\ edit[r].lyrics = r.lyrics /\ edit[r].folder = r.folder
                      /\ edit[r].retimed \in {r.retimed, r.lyrics}
  <2> SUFFICES ASSUME NEW r \in sets
               PROVE  /\ edit[r] \in RowRecords /\ edit[r].id = r.id /\ edit[r].job = r.job
                      /\ edit[r].lyrics = r.lyrics /\ edit[r].folder = r.folder
                      /\ edit[r].retimed \in {r.retimed, r.lyrics}
    OBVIOUS
  <2>1. r \in RowRecords /\ (r.id = flow[f].id => r.lyrics = times)
    BY <1>1, <1>6
  <2> QED BY <1>8, <2>1 DEF RowRecords
<1>10. /\ \A r \in sets : edit[r] \in sets'
       /\ \A q \in sets' : \E r \in sets : q = edit[r]
  <2>1. sets' = {IF r.id = flow[f].id THEN [r EXCEPT !.retimed = times] ELSE r :
                   r \in sets}
    BY <1>5 DEF Retime
  <2>2. \A r \in sets : edit[r] \in sets'
    BY <1>8, <2>1, Zenon
  <2>3. ASSUME NEW q \in sets' PROVE \E r \in sets : q = edit[r]
    <3>1. PICK r \in sets : q = IF r.id = flow[f].id THEN [r EXCEPT !.retimed = times]
                                                     ELSE r
      BY <2>1, Zenon
    <3> QED BY <1>8, <3>1, Zenon
  <2> QED BY <2>2, <2>3
<1> QED BY <1>3, <1>4, <1>9, <1>10, RowsEdited

-----------------------------------------------------------------------------
(* The sweep.                                                                  *)

\* The sweep goes on over folders it alone is to delete.
LEMMA SweepMoves ==
  ASSUME IInv, UNCHANGED <<sets, nextId, flow, crossed, pending, shown, menu>>,
         disk' \subseteq disk, undeleted' \in SUBSET Places,
         sweep' \in [at : {"off", "skipped", "disk", "table", "deleting", "swept"},
                     idle : BOOLEAN, onDisk : SUBSET Places, orphans : SUBSET Places],
         ~crossed => \A p \in disk \ disk' : p \in Doomed,
         ~crossed => \A p \in sweep'.orphans \ sweep.orphans :
                        p \notin Folders(sets) /\ \A g \in Copies : p # flow[g].folder,
         FoldersAnswered'
  PROVE  IInv'
<1>1. Types /\ RowsTold /\ TimesMeant /\ FilesOwned
  BY DEF IInv
<1>2. Types'
  BY <1>1 DEF Types, ScreenTypes
<1>3. RowsTold' /\ TimesMeant'
  BY <1>1 DEF RowsTold, TimesMeant, At
<1>4. /\ Copies' = Copies /\ Leavers' = Leavers /\ Folders(sets)' = Folders(sets)
      /\ \A p \in Doomed' : p \in Doomed \/ p \in sweep'.orphans \ sweep.orphans
  BY DEF Copies, Leavers, Folders, Doomed
<1>5. FilesOwned'
  <2> SUFFICES ASSUME ~crossed
               PROVE  /\ \A r \in sets : r.folder \in disk' \ Doomed'
                      /\ \A r, q \in sets : r.folder = q.folder => r = q
                      /\ \A g \in Copies :
                           flow[g].folder \in disk' \ (Doomed' \union Folders(sets))
                      /\ \A g, h \in Copies : flow[g].folder = flow[h].folder => g = h
    BY <1>4 DEF FilesOwned
  <2>1. /\ \A r \in sets : r.folder \in disk \ Doomed
        /\ \A r, q \in sets : r.folder = q.folder => r = q
        /\ \A g \in Copies : flow[g].folder \in disk \ (Doomed \union Folders(sets))
        /\ \A g, h \in Copies : flow[g].folder = flow[h].folder => g = h
    BY <1>1 DEF FilesOwned
  <2>2. \A r \in sets : r.folder \in Folders(sets)
    BY DEF Folders
  <2>3. \A r \in sets : r.folder \in disk' \ Doomed'
    BY <1>4, <2>1, <2>2
  <2>4. \A g \in Copies : flow[g].folder \in disk' \ (Doomed' \union Folders(sets))
    BY <1>4, <2>1
  <2> QED BY <2>1, <2>3, <2>4
<1> QED BY <1>2, <1>3, <1>5 DEF IInv

LEMMA SweepInv ==
  ASSUME IInv, Sweep
  PROVE  IInv'
<1>1. Types /\ FilesOwned /\ FoldersAnswered
  BY DEF IInv
<1>2. /\ disk \in SUBSET Places /\ undeleted \in SUBSET Places
      /\ flow \in [Flows -> Calls]
      /\ sweep \in [at : {"off", "skipped", "disk", "table", "deleting", "swept"},
                    idle : BOOLEAN, onDisk : SUBSET Places, orphans : SUBSET Places]
  BY <1>1 DEF Types
<1>3. /\ UNCHANGED <<sets, nextId, flow, crossed, pending, shown, menu>>
      /\ disk' \subseteq disk
  BY DEF Sweep, SweepBegins, SweepDisk, SweepTable, SweepDelete, table, screen
<1>4. Copies' = Copies /\ Leavers' = Leavers /\ Folders(sets)' = Folders(sets)
  BY <1>3 DEF Copies, Leavers, Folders
<1>5. undeleted' = undeleted => Accounted' = Accounted
  BY <1>3, <1>4 DEF Accounted
<1>6. ASSUME NEW at \in {"skipped", "disk"}, NEW idle \in BOOLEAN,
             sweep' = [at |-> at, idle |-> idle, onDisk |-> {}, orphans |-> {}],
             disk' = disk, undeleted' = undeleted
      PROVE  IInv'
  <2>1. LeftOver' = Places
    BY <1>6 DEF LeftOver
  <2>2. FoldersAnswered'
    BY <1>2, <1>6, <2>1 DEF FoldersAnswered
  <2>3. /\ sweep' \in [at : {"off", "skipped", "disk", "table", "deleting", "swept"},
                       idle : BOOLEAN, onDisk : SUBSET Places, orphans : SUBSET Places]
        /\ sweep'.orphans = {}
    BY <1>6
  <2> QED BY <1>2, <1>3, <1>6, <2>2, <2>3, SweepMoves
<1>7. CASE SweepBegins
  <2>1. /\ disk' = disk /\ undeleted' = undeleted
        /\ \/ sweep' = [at |-> "skipped", idle |-> FALSE, onDisk |-> {}, orphans |-> {}]
           \/ sweep' = [at |-> "disk", idle |-> TRUE, onDisk |-> {}, orphans |-> {}]
    BY <1>7 DEF SweepBegins, Off
  <2> QED BY <1>6, <2>1
<1>8. CASE SweepDisk
  <2>1. disk' = disk /\ undeleted' = undeleted
    BY <1>8 DEF SweepDisk
  <2>2. CASE sweep' = [sweep EXCEPT !.at = "table", !.onDisk = disk]
    <3>1. /\ sweep'.at = "table" /\ sweep'.onDisk = disk
          /\ sweep'.orphans = sweep.orphans
          /\ sweep' \in [at : {"off", "skipped", "disk", "table", "deleting", "swept"},
                         idle : BOOLEAN, onDisk : SUBSET Places, orphans : SUBSET Places]
      BY <1>2, <2>2
    <3>2. FoldersAnswered'
      BY <2>1, <3>1 DEF FoldersAnswered, LeftOver
    <3> QED BY <1>2, <1>3, <2>1, <3>1, <3>2, SweepMoves
  <2>3. CASE sweep' = [Off EXCEPT !.at = "skipped"]
    <3>1. sweep' = [at |-> "skipped", idle |-> FALSE, onDisk |-> {}, orphans |-> {}]
      BY <2>3 DEF Off
    <3> QED BY <1>6, <2>1, <3>1
  <2> QED BY <1>8, <2>2, <2>3 DEF SweepDisk
<1>9. CASE SweepTable
  <2> DEFINE orphans == sweep.onDisk \ Folders(sets)
  <2>1. /\ disk' = disk /\ undeleted' = undeleted /\ sweep.at = "table"
        /\ sweep' = IF ~stillIdleSince THEN [Off EXCEPT !.at = "skipped"]
                    ELSE IF orphans = {} THEN [Off EXCEPT !.at = "swept"]
                    ELSE [Off EXCEPT !.at = "deleting", !.orphans = orphans]
    BY <1>9 DEF SweepTable
  <2>2. disk \subseteq Accounted \union sweep.onDisk
    BY <1>1, <2>1 DEF FoldersAnswered, LeftOver
  <2>3. Folders(sets) \subseteq Accounted
    BY DEF Accounted
  <2>4. CASE ~stillIdleSince
    <3>1. sweep' = [at |-> "skipped", idle |-> FALSE, onDisk |-> {}, orphans |-> {}]
      BY <2>1, <2>4 DEF Off
    <3> QED BY <1>6, <2>1, <3>1
  <2>5. CASE stillIdleSince /\ orphans = {}
    <3>1. sweep' = [at |-> "swept", idle |-> FALSE, onDisk |-> {}, orphans |-> {}]
      BY <2>1, <2>5 DEF Off
    <3>2. LeftOver' = {}
      BY <3>1 DEF LeftOver
    <3>3. FoldersAnswered'
      BY <1>5, <2>1, <2>2, <2>3, <2>5, <3>2 DEF FoldersAnswered
    <3>4. /\ sweep' \in [at : {"off", "skipped", "disk", "table", "deleting", "swept"},
                         idle : BOOLEAN, onDisk : SUBSET Places, orphans : SUBSET Places]
          /\ sweep'.orphans = {}
      BY <3>1
    <3> QED BY <1>2, <1>3, <2>1, <3>3, <3>4, SweepMoves
  <2>6. CASE stillIdleSince /\ orphans # {}
    <3>1. PICK left \in SUBSET Places : left = orphans
      BY <1>2
    <3>2. sweep' = [at |-> "deleting", idle |-> FALSE, onDisk |-> {}, orphans |-> left]
      BY <2>1, <2>6, <3>1 DEF Off
    <3>3. LeftOver' = left
      BY <3>2 DEF LeftOver
    <3>4. FoldersAnswered'
      BY <1>5, <2>1, <2>2, <2>3, <3>1, <3>3 DEF FoldersAnswered
    <3>5. /\ sweep' \in [at : {"off", "skipped", "disk", "table", "deleting", "swept"},
                         idle : BOOLEAN, onDisk : SUBSET Places, orphans : SUBSET Places]
          /\ sweep'.orphans = left
      BY <3>2
    <3>6. Copies = {}
      <4> SUFFICES ASSUME NEW g \in Copies PROVE FALSE
        OBVIOUS
      <4>1. g \in Flows /\ flow[g].at \in {"storing", "undoing"}
        BY DEF Copies
      <4>2. flow[g].kind = "import"
        BY <1>2, <4>1, StageTellsKind
      <4> QED BY <2>6, <4>1, <4>2 DEF stillIdleSince, Tracked
    <3>7. \A p \in left : p \notin Folders(sets)
      BY <3>1
    <3> QED BY <1>2, <1>3, <2>1, <3>4, <3>5, <3>6, <3>7, SweepMoves
  <2> HIDE DEF orphans
  <2> QED BY <2>4, <2>5, <2>6
<1>10. CASE SweepDelete
  <2>1. sweep.at = "deleting" /\ disk \subseteq Accounted \union sweep.orphans
    BY <1>1, <1>10 DEF SweepDelete, FoldersAnswered, LeftOver
  <2>2. sweep.orphans \subseteq Doomed
    BY DEF Doomed
  <2>3. ASSUME NEW folder \in sweep.orphans, disk' = disk \ {folder},
               sweep' = IF sweep.orphans = {folder} THEN [Off EXCEPT !.at = "swept"]
                        ELSE [sweep EXCEPT !.orphans = @ \ {folder}],
               undeleted' = undeleted
        PROVE  IInv'
    <3>1. /\ sweep' \in [at : {"off", "skipped", "disk", "table", "deleting", "swept"},
                         idle : BOOLEAN, onDisk : SUBSET Places, orphans : SUBSET Places]
          /\ sweep'.orphans = sweep.orphans \ {folder}
          /\ sweep'.at \in {"swept", "deleting"}
          /\ sweep'.at = "swept" => sweep.orphans = {folder}
      <4>1. CASE sweep.orphans = {folder}
        BY <2>3, <4>1 DEF Off
      <4>2. CASE sweep.orphans # {folder}
        BY <1>2, <2>1, <2>3, <4>2
      <4> QED BY <4>1, <4>2
    <3>2. LeftOver' = sweep.orphans \ {folder}
      BY <3>1 DEF LeftOver
    <3>3. FoldersAnswered'
      BY <1>5, <2>1, <2>3, <3>2 DEF FoldersAnswered
    <3> QED BY <1>2, <1>3, <2>2, <2>3, <3>1, <3>3, SweepMoves
  <2>4. CASE /\ undeleted' = undeleted \union sweep.orphans
             /\ sweep' = [Off EXCEPT !.at = "swept"] /\ disk' = disk
    <3>1. sweep' = [at |-> "swept", idle |-> FALSE, onDisk |-> {}, orphans |-> {}]
      BY <2>4 DEF Off
    <3>2. LeftOver' = {}
      BY <3>1 DEF LeftOver
    <3>3. Accounted \union sweep.orphans \subseteq Accounted'
      BY <1>3, <1>4, <2>4 DEF Accounted
    <3>4. FoldersAnswered'
      BY <2>1, <2>4, <3>2, <3>3 DEF FoldersAnswered
    <3>5. /\ sweep' \in [at : {"off", "skipped", "disk", "table", "deleting", "swept"},
                         idle : BOOLEAN, onDisk : SUBSET Places, orphans : SUBSET Places]
          /\ sweep'.orphans = {}
      BY <3>1
    <3>6. undeleted' \in SUBSET Places
      <4>1. sweep.orphans \in SUBSET Places
        BY <1>2
      <4> QED BY <1>2, <2>4, <4>1
    <3> QED BY <1>3, <2>4, <3>4, <3>5, <3>6, SweepMoves
  <2> QED BY <1>10, <2>3, <2>4 DEF SweepDelete
<1> QED BY <1>7, <1>8, <1>9, <1>10 DEF Sweep

LEMMA DieInv ==
  ASSUME IInv, Die
  PROVE  IInv'
<1>1. Types /\ RowsTold /\ FilesOwned
  BY DEF IInv
<1>2. /\ UNCHANGED <<sets, nextId, disk, crossed>> /\ undeleted' = {}
      /\ flow' = [g \in Flows |-> NoFlow]
      /\ sweep' = [at |-> "off", idle |-> FALSE, onDisk |-> {}, orphans |-> {}]
      /\ pending' = NoBundle /\ shown' = {} /\ menu' = [kind |-> None, target |-> NoRow]
  BY DEF Die, table, Off
<1>3. NoFlow \in Calls /\ NoFlow.at = "done"
  BY NoFlowIsACall DEF NoFlow
<1>4. /\ flow' \in [Flows -> Calls] /\ \A g \in Flows : flow'[g].at = "done"
      /\ Copies' = {} /\ Leavers' = {}
  BY <1>2, <1>3 DEF Copies, Leavers
<1>5. Types'
  BY <1>1, <1>2, <1>4 DEF Types, ScreenTypes
<1>6. RowsTold' /\ TimesMeant'
  BY <1>1, <1>2, <1>4 DEF RowsTold, TimesMeant, At
<1>7. Doomed' = {}
  BY <1>2, <1>4 DEF Doomed
<1>8. FilesOwned'
  BY <1>1, <1>2, <1>4, <1>7 DEF FilesOwned
<1>9. FoldersAnswered'
  <2>1. LeftOver' = Places
    BY <1>2 DEF LeftOver
  <2> QED BY <1>5, <2>1 DEF FoldersAnswered, Types
<1> QED BY <1>5, <1>6, <1>8, <1>9 DEF IInv

-----------------------------------------------------------------------------
(* The specification.                                                          *)

LEMMA InitInv ==
  ASSUME Init
  PROVE  IInv
<1>1. /\ sets = {} /\ nextId = 1 /\ disk = {} /\ undeleted = {} /\ crossed = FALSE
      /\ flow = [g \in Flows |-> NoFlow]
      /\ sweep = [at |-> "off", idle |-> FALSE, onDisk |-> {}, orphans |-> {}]
      /\ pending = NoBundle /\ shown = {} /\ menu = [kind |-> None, target |-> NoRow]
  BY DEF Init, Off
<1>2. NoFlow \in Calls /\ NoFlow.at = "done"
  BY NoFlowIsACall DEF NoFlow
<1>3. flow \in [Flows -> Calls] /\ Copies = {} /\ Leavers = {}
  BY <1>1, <1>2 DEF Copies, Leavers
<1>4. Types
  <2>1. ScreenTypes
    BY <1>1 DEF ScreenTypes
  <2>2. sweep \in [at : {"off", "skipped", "disk", "table", "deleting", "swept"},
                   idle : BOOLEAN, onDisk : SUBSET Places, orphans : SUBSET Places]
    BY <1>1
  <2>3. /\ sets \in SUBSET RowRecords /\ nextId \in Nat \ {0} /\ disk \in SUBSET Places
        /\ undeleted \in SUBSET Places
    BY <1>1
  <2>4. crossed \in BOOLEAN
    BY <1>1, Zenon
  <2> QED BY <1>3, <2>1, <2>2, <2>3, <2>4 DEF Types
<1>5. RowsTold /\ TimesMeant
  BY <1>1, <1>2 DEF RowsTold, TimesMeant, At
<1>6. FilesOwned
  BY <1>1, <1>3 DEF FilesOwned
<1>7. FoldersAnswered
  BY <1>1 DEF FoldersAnswered
<1> QED BY <1>4, <1>5, <1>6, <1>7 DEF IInv

LEMMA StutterInv ==
  ASSUME IInv, UNCHANGED vars
  PROVE  IInv'
<1>1. /\ UNCHANGED <<table, disk, crossed, undeleted, sweep, flow, pending, shown, menu>>
  BY DEF vars, table
<1>2. Types /\ flow \in [Flows -> Calls]
  BY DEF IInv, Types
<1>3. ScreenTypes'
  BY <1>1, <1>2 DEF Types, ScreenTypes
<1> QED BY <1>1, <1>2, <1>3, QuietlyNothing, QuietStep

LEMMA NextInv ==
  ASSUME IInv, [Next]_vars
  PROVE  IInv'
<1>1. ASSUME NEW f \in Flows, FlowStep(f)
      PROVE  IInv'
  <2>1. \/ Check(f) \/ Find(f) \/ Copy(f) \/ Store(f) \/ Undo(f) \/ Clear(f)
        \/ Refresh(f) \/ Delete(f) \/ Rename(f) \/ Retime(f)
    BY <1>1 DEF FlowStep
  <2> QED BY <2>1, CheckInv, FindInv, CopyInv, StoreInv, UndoInv, ClearInv, RefreshInv,
             DeleteInv, RenameInv, RetimeInv
<1>2. CASE Sweep
  BY <1>2, SweepInv
<1>3. CASE User
  BY <1>3, UserInv, SaveTimingInv
<1>4. CASE Die
  BY <1>4, DieInv
<1>5. CASE UNCHANGED vars
  BY <1>5, StutterInv
<1> QED BY <1>1, <1>2, <1>3, <1>4, <1>5 DEF Next

LEMMA Inductive == Spec => []IInv
<1>1. Init => IInv
  BY InitInv
<1>2. IInv /\ [Next]_vars => IInv'
  BY NextInv
<1> QED BY <1>1, <1>2, PTL DEF Spec

\* What the invariant says of the files and the times of songs.
LEMMA InvIsKept ==
  ASSUME IInv
  PROVE  FilesKept /\ FilesFreed /\ TimesFit
<1>1. Types /\ RowsTold /\ FilesOwned /\ FoldersAnswered
  BY DEF IInv
<1>2. FilesKept
  <2> SUFFICES ASSUME ~crossed
               PROVE  /\ Folders(sets) \subseteq disk
                      /\ \A r, q \in sets : r # q => r.folder # q.folder /\ r.job # q.job
    BY DEF FilesKept
  <2>1. Folders(sets) \subseteq disk
    BY <1>1 DEF FilesOwned, Folders
  <2>2. \A r, q \in sets : r # q => r.folder # q.folder /\ r.job # q.job
    BY <1>1 DEF FilesOwned, RowsTold
  <2> QED BY <2>1, <2>2
<1>3. FilesFreed
  <2> SUFFICES ASSUME sweep.at = "swept", \A f \in Flows : flow[f] = NoFlow
               PROVE  disk \ Folders(sets) \subseteq undeleted
    BY DEF FilesFreed
  <2>1. NoFlow.at = "done"
    BY DEF NoFlow
  <2>2. Copies \union Leavers = {} /\ LeftOver = {}
    BY <2>1 DEF Copies, Leavers, LeftOver
  <2>3. Accounted = Folders(sets) \union undeleted
    BY <2>2 DEF Accounted
  <2> QED BY <1>1, <2>2, <2>3 DEF FoldersAnswered
<1>4. TimesFit
  BY <1>1 DEF RowsTold, TimesFit
<1> QED BY <1>2, <1>3, <1>4

\* Every row, folder and flow is of its type, and a flow is only where a call of its
\* kind can be (songLibrary.ts, stem-bundles.ts).
THEOREM LibraryTypes == Spec => []Types
<1>1. IInv => Types
  BY DEF IInv
<1> QED BY <1>1, Inductive, PTL

\* Each song's files are on disk and its own, whatever fails or dies, as long as no
\* import takes a name that somebody is still to delete (stemFolderSweep.ts).
THEOREM SongsKeepTheirFiles == Spec => []FilesKept
<1>1. IInv => FilesKept
  BY InvIsKept
<1> QED BY <1>1, Inductive, PTL

\* A sweep that ran through leaves no folder without a song but those that could not
\* be deleted (stemFolderSweep.ts).
THEOREM SweepsFreeTheRest == Spec => []FilesFreed
<1>1. IInv => FilesFreed
  BY InvIsKept
<1> QED BY <1>1, Inductive, PTL

\* Tapped times stand by the lyrics they were tapped for (stem-lyrics.ts:50).
THEOREM TimesStandByTheirLyrics == Spec => []TimesFit
<1>1. IInv => TimesFit
  BY InvIsKept
<1> QED BY <1>1, Inductive, PTL

-----------------------------------------------------------------------------
(* Names.                                                                      *)

LEMMA NamesStayStep ==
  ASSUME IInv, [Next]_vars
  PROVE  NamesKept
<1>1. RowsTold /\ \A r, q \in sets : r.job = q.job => r = q
  BY DEF IInv, RowsTold
<1>2. CASE sets' \subseteq sets
  BY <1>1, <1>2 DEF NamesKept
<1>3. ASSUME NEW f \in Flows, Store(f)
      PROVE  NamesKept
  <2> DEFINE b == flow[f].bundle
             new == insertStemBundle(b, flow[f].folder)
  <2>1. CASE findStemSetByJobId(b.job) = {} /\ sets' = sets \union {new}
    <3>1. \A r \in sets : r.job # new.job
      BY <2>1 DEF findStemSetByJobId, insertStemBundle
    <3> HIDE DEF new
    <3> QED BY <1>1, <2>1, <3>1 DEF NamesKept
  <2>2. ASSUME NEW old \in findStemSetByJobId(b.job),
               sets' = (sets \ {old}) \union {replaceStemBundle(old, b, flow[f].folder)}
        PROVE  NamesKept
    <3>1. PICK n : n = replaceStemBundle(old, b, flow[f].folder)
      OBVIOUS
    <3>2. n.job = b.job /\ n.renamed = old.renamed
      BY <3>1 DEF replaceStemBundle, applyUserNames, insertStemBundle
    <3>3. old \in sets /\ old.job = b.job /\ sets' = (sets \ {old}) \union {n}
      BY <2>2, <3>1 DEF findStemSetByJobId
    <3>4. ASSUME NEW r \in sets, NEW q \in sets', r.job = q.job, r.renamed
          PROVE  q.renamed
      <4>1. CASE q = n
        <5>1. r = old
          BY <1>1, <3>2, <3>3, <3>4, <4>1
        <5> QED BY <3>2, <3>4, <4>1, <5>1
      <4>2. CASE q # n
        <5>1. q = r
          BY <1>1, <3>3, <3>4, <4>2
        <5> QED BY <3>4, <5>1
      <4> QED BY <4>1, <4>2
    <3> QED BY <3>4 DEF NamesKept
  <2>3. CASE sets' = sets
    BY <1>2, <2>3
  <2> QED BY <1>3, <2>1, <2>2, <2>3 DEF Store, table
<1>4. ASSUME NEW edit,
             \A r \in sets : edit[r].job = r.job /\ (r.renamed => edit[r].renamed),
             \A q \in sets' : \E r \in sets : q = edit[r]
      PROVE  NamesKept
  <2> SUFFICES ASSUME NEW r \in sets, NEW q \in sets', r.job = q.job, r.renamed
               PROVE  q.renamed
    BY DEF NamesKept
  <2>1. PICK s \in sets : q = edit[s]
    BY <1>4
  <2>2. s = r
    BY <1>1, <1>4, <2>1
  <2> QED BY <1>4, <2>1, <2>2
<1>5. \A r \in sets : r \in RowRecords
  BY DEF IInv, Types
<1>6. ASSUME NEW f \in Flows, Rename(f)
      PROVE  NamesKept
  <2>1. CASE sets' = {IF r.id = flow[f].id THEN [r EXCEPT !.renamed = TRUE] ELSE r :
                        r \in sets}
    <3>1. PICK edit : edit = [r \in sets |-> IF r.id = flow[f].id
                                             THEN [r EXCEPT !.renamed = TRUE] ELSE r]
      OBVIOUS
    <3>2. \A r \in sets : edit[r] = IF r.id = flow[f].id
                                    THEN [r EXCEPT !.renamed = TRUE] ELSE r
      BY <3>1
    <3>3. ASSUME NEW r \in sets
          PROVE  edit[r].job = r.job /\ (r.renamed => edit[r].renamed)
      <4>1. r \in RowRecords
        BY <1>5
      <4> QED BY <3>2, <4>1 DEF RowRecords
    <3>4. ASSUME NEW q \in sets' PROVE \E r \in sets : q = edit[r]
      <4>1. PICK r \in sets : q = IF r.id = flow[f].id THEN [r EXCEPT !.renamed = TRUE]
                                                       ELSE r
        BY <2>1, Zenon
      <4> QED BY <3>2, <4>1, Zenon
    <3> QED BY <1>4, <3>3, <3>4
  <2>2. CASE sets' = sets
    BY <1>2, <2>2
  <2> QED BY <1>6, <2>1, <2>2 DEF Rename
<1>7. ASSUME NEW f \in Flows, Retime(f)
      PROVE  NamesKept
  <2>1. PICK times : times = flow[f].bundle.lyrics
    OBVIOUS
  <2>2. sets' = {IF r.id = flow[f].id THEN [r EXCEPT !.retimed = times] ELSE r :
                   r \in sets}
    BY <1>7, <2>1 DEF Retime
  <2>3. PICK edit : edit = [r \in sets |-> IF r.id = flow[f].id
                                           THEN [r EXCEPT !.retimed = times] ELSE r]
    OBVIOUS
  <2>4. \A r \in sets : edit[r] = IF r.id = flow[f].id
                                  THEN [r EXCEPT !.retimed = times] ELSE r
    BY <2>3
  <2>5. ASSUME NEW r \in sets
        PROVE  edit[r].job = r.job /\ (r.renamed => edit[r].renamed)
    <3>1. r \in RowRecords
      BY <1>5
    <3> QED BY <2>4, <3>1 DEF RowRecords
  <2>6. ASSUME NEW q \in sets' PROVE \E r \in sets : q = edit[r]
    <3>1. PICK r \in sets : q = IF r.id = flow[f].id THEN [r EXCEPT !.retimed = times]
                                                     ELSE r
      BY <2>2, Zenon
    <3> QED BY <2>4, <3>1, Zenon
  <2> QED BY <1>4, <2>5, <2>6
<1>8. CASE sets' = sets
  BY <1>2, <1>8
<1>9. ASSUME NEW f \in Flows, FlowStep(f)
      PROVE  NamesKept
  <2>1. CASE Delete(f)
    <3>1. sets' \subseteq sets
      BY <2>1 DEF Delete
    <3> QED BY <1>2, <3>1
  <2>2. CASE Check(f) \/ Find(f) \/ Copy(f) \/ Undo(f) \/ Clear(f) \/ Refresh(f)
    BY <1>8, <2>2 DEF Check, Find, Copy, Undo, Clear, Refresh, table
  <2> QED BY <1>3, <1>6, <1>7, <1>9, <2>1, <2>2 DEF FlowStep
<1>10. (Sweep \/ User \/ Die \/ UNCHANGED vars) => sets' = sets
  <2>1. Sweep => sets' = sets
    BY DEF Sweep, SweepBegins, SweepDisk, SweepTable, SweepDelete, table
  <2>2. User => sets' = sets
    BY DEF User, Enter, Search, Pick, Picked, confirmReplace, cancelReplace, OpenActions,
           ActionsSheet, RenameSheet, DeleteSheet, NoticeCard, SaveTiming, rest, table
  <2>3. Die => sets' = sets
    BY DEF Die, table
  <2>4. UNCHANGED vars => sets' = sets
    BY DEF vars
  <2> QED BY <2>1, <2>2, <2>3, <2>4
<1> QED BY <1>8, <1>9, <1>10 DEF Next

\* A song that is replaced, renamed again or given times keeps the name its user gave
\* it (notices.ts:144).
THEOREM NamesStay == Spec => [][NamesKept]_vars
<1>1. IInv /\ [Next]_vars => [NamesKept]_vars
  BY NamesStayStep
<1> QED BY <1>1, Inductive, PTL DEF Spec

================================================================================
